---- MODULE Spec2Model ----
(***************************************************************************)
(* Model of the finsage-lite 10-K pipeline core:                           *)
(*   - SectionChunker  (src/src/services/chunking.py)                      *)
(*   - FilingParser    (src/src/services/parsing.py)                       *)
(*   - FilingParser._clean_text, pass by pass                              *)
(*   - IngestionService (src/src/services/ingestion.py)                    *)
(*   - EdgarClient._request_with_retry (src/src/clients/edgar.py)          *)
(* Strings are sequences of one-character strings, token sequences are     *)
(* sequences of such strings, Python indices are 0-based and kept as the   *)
(* code computes them.                                                     *)
(***************************************************************************)
EXTENDS Integers, Sequences, FiniteSets, TLC

VARIABLES
    \* ---- SectionChunker ----
    cpc,            \* "new" | "ready" | "returned" | "ValueError"
    chunk_size,     \* self._chunk_size
    chunk_overlap,  \* self._chunk_overlap
    text,           \* chunk_section: the text argument as passed by the caller
    args,           \* chunk_section: section, section_title, company_name, cik, fiscal_year
    tokens,         \* _split_tokens: _ENCODER.encode(text) of the stripped text
    windows,        \* _split_tokens: the (start, end) pairs the loop sliced
    chunks,         \* chunk_section: the returned list[ChunkData]
    \* ---- FilingParser ----
    ppc,            \* position in parse_html, or the exception it raised
    file,           \* the file at html_path
    target_sections,\* self._target_sections (lowercased)
    metadata,       \* parse_html: metadata
    strategy,       \* which detection strategies have run: "none" | "dom" | "dom+fallback"
    headings,       \* parse_html: headings
    extracted,      \* _extract_target_sections: (html_content, text_content) per heading
    sections,       \* ParsedFiling.sections, in insertion order
    all_sections_found, \* ParsedFiling.all_sections_found
    order_warnings, \* _validate_heading_order: the warnings it logged
    \* ---- FilingParser._clean_text ----
    kpc,            \* "call" | "returned"
    raw,            \* the text argument
    cname,          \* the company_name argument
    cyear,          \* the fiscal_year argument
    cleaned,        \* the returned string
    \* ---- IngestionService ----
    ipc,            \* position in ingest, or the exception it raised
    req,            \* ingest: the ticker and fiscal_year arguments
    icfg,           \* settings.CHUNK_SIZE, settings.CHUNK_OVERLAP of self._chunker
    db,             \* the committed rows of the documents table
    existing,       \* ingest: existing
    filing,         \* ingest: filing (the matched FilingInfo)
    parsed,         \* ingest: parsed.sections, in the order of the map
    document,       \* ingest: document, added to the session
    all_chunks,     \* ingest: all_chunks
    effects,        \* the calls ingest has made outside itself, in order
    cause,          \* the exception the raised one was chained from ("" when none)
    \* ---- EdgarClient._request_with_retry ----
    epc,            \* "acquire" | "get" | "sleep" | "returned" | "EdgarClientError"
    max_concurrent, \* the max_concurrent argument of the constructor
    sem,            \* self._semaphore: the permits that are free
    others,         \* permits held by the other requests of this client
    attempt,        \* the loop variable
    gets,           \* the outcome of every self._client.get(url) of this call, in order
    last_exception, \* last_exception ("" for None)
    response,       \* the returned response (NoResponse before the return)
    wait,           \* the last back-off delay, in seconds
    \* ---- FilingParser._find_body_child ----
    wpc,            \* "walk" | "returned"
    ancestry,       \* the tag names from the element argument up to its root
    current,        \* current, as an index into ancestry (0 for None)
    body_div,       \* the returned ancestor, as an index into ancestry, or None
    \* ---- concurrent calls of IngestionService.ingest, a session each ----
    rpc,            \* per session: position in ingest, or the exception it raised
    rreq,           \* per session: the ticker and fiscal_year arguments
    matched,        \* per session: matched.accession_number ("" before the fetch)
    pending,        \* per session: the documents row it has flushed and not committed
    documents       \* the committed rows of the documents table

chunkerVars == <<cpc, chunk_size, chunk_overlap, text, args, tokens, windows, chunks>>

parserVars == <<ppc, file, target_sections, metadata, strategy, headings, extracted,
                sections, all_sections_found, order_warnings>>

cleanerVars == <<kpc, raw, cname, cyear, cleaned>>

ingestVars == <<ipc, req, icfg, db, existing, filing, parsed, document, all_chunks,
                effects, cause>>

edgarVars == <<epc, max_concurrent, sem, others, attempt, gets, last_exception,
               response, wait>>

walkVars == <<wpc, ancestry, current, body_div>>

raceVars == <<rpc, rreq, matched, pending, documents>>

vars == <<chunkerVars, parserVars, cleanerVars, ingestVars, edgarVars, walkVars, raceVars>>

\* what an action of one component leaves alone
besideChunker == <<parserVars, cleanerVars, ingestVars, edgarVars, walkVars, raceVars>>

besideParser == <<chunkerVars, cleanerVars, ingestVars, edgarVars, walkVars, raceVars>>

besideCleaner == <<chunkerVars, parserVars, ingestVars, edgarVars, walkVars, raceVars>>

besideIngest == <<chunkerVars, parserVars, cleanerVars, edgarVars, walkVars, raceVars>>

besideEdgar == <<chunkerVars, parserVars, cleanerVars, ingestVars, walkVars, raceVars>>

besideWalk == <<chunkerVars, parserVars, cleanerVars, ingestVars, edgarVars, raceVars>>

besideRace == <<chunkerVars, parserVars, cleanerVars, ingestVars, edgarVars, walkVars>>

----------------------------------------------------------------------------
\* Bounds of the model

MaxTextLen == 5      \* longest input text, in characters
MaxChunkSize == 3    \* largest chunk_size passed to the constructor
MaxNegative == 2     \* constructor arguments go down to -MaxNegative
MaxBlocks == 3       \* most children of <body> in a filing
MaxMixedFrags == 4   \* _clean_text: longest input built from all fragments
MaxFooterFrags == 5  \* _clean_text: longest input built from footer fragments
MaxBlankFrags == 7   \* _clean_text: longest input built from blank-line fragments
MaxSections == 2     \* ingest: most entries of parsed.sections
MaxConcurrent == 2   \* EdgarClient: largest max_concurrent passed to the constructor
MaxDepth == 3        \* _find_body_child: most tags between the element and the top of its tree
MaxSessions == 2     \* concurrent ingest calls: most sessions open at a time

----------------------------------------------------------------------------
\* Generic helpers

Min(a, b) == IF a <= b THEN a ELSE b

Max(a, b) == IF a >= b THEN a ELSE b

\* math.ceil(a / b) for a >= 0, b > 0
CeilDiv(a, b) == (a + b - 1) \div b

Letters == {"a"}
Digits == {"1"}
Spaces == {" "}
Alphabet == Letters \cup Digits \cup Spaces

RECURSIVE SeqsUpTo(_, _)
SeqsUpTo(S, n) ==
    IF n = 0 THEN {<<>>}
    ELSE LET shorter == SeqsUpTo(S, n - 1)
         IN  shorter \cup {Append(s, c) : s \in {t \in shorter : Len(t) = n - 1}, c \in S}

Texts == SeqsUpTo(Alphabet, MaxTextLen)

\* str.lstrip() / str.rstrip() / str.strip(): whitespace removed at both ends
RECURSIVE LStrip(_)
LStrip(s) == IF s # <<>> /\ Head(s) \in Spaces THEN LStrip(Tail(s)) ELSE s

RECURSIVE RStrip(_)
RStrip(s) ==
    IF s # <<>> /\ s[Len(s)] \in Spaces THEN RStrip(SubSeq(s, 1, Len(s) - 1)) ELSE s

Strip(s) == RStrip(LStrip(s))

\* seq[a:b] with Python's slice semantics: negative indices count from the
\* end, both are clamped to the sequence, an empty range gives the empty list
PyIndex(i, n) == IF i < 0 THEN Max(i + n, 0) ELSE Min(i, n)

PySlice(s, a, b) == SubSeq(s, PyIndex(a, Len(s)) + 1, PyIndex(b, Len(s)))

\* str(n) for an integer
RECURSIVE NatToStr(_)
NatToStr(n) ==
    LET d == <<"0", "1", "2", "3", "4", "5", "6", "7", "8", "9">>
    IN  IF n < 10 THEN <<d[n + 1]>> ELSE Append(NatToStr(n \div 10), d[(n % 10) + 1])

IntToStr(n) == IF n < 0 THEN <<"-">> \o NatToStr(-n) ELSE NatToStr(n)

----------------------------------------------------------------------------
\* The tokenizer (_ENCODER, cl100k_base).  Its pre-tokenizer splits the text
\* into pieces by the alternation
\*    [^\r\n\p{L}\p{N}]?\p{L}+ | \p{N}{1,3} | ... | \s+(?!\S) | \s+
\* and every piece over this alphabet is one token.  decode() concatenates.

\* length of the maximal run of characters of S at the front of s
RECURSIVE RunLen(_, _)
RunLen(s, S) == IF s # <<>> /\ Head(s) \in S THEN 1 + RunLen(Tail(s), S) ELSE 0

\* length of the first piece of a non-empty string
PieceLen(s) ==
    LET c == Head(s)
        rest == Tail(s)
        ws == RunLen(s, Spaces)
    IN  IF c \in Letters THEN RunLen(s, Letters)
        ELSE IF c \in Digits THEN Min(RunLen(s, Digits), 3)
        ELSE IF rest # <<>> /\ Head(rest) \in Letters THEN 1 + RunLen(rest, Letters)
        ELSE IF ws = Len(s) THEN ws          \* \s+(?!\S): whitespace up to the end
        ELSE IF ws >= 2 THEN ws - 1          \* \s+(?!\S): all but the last space
        ELSE 1                               \* \s+

RECURSIVE Encode(_)
Encode(s) ==
    IF s = <<>> THEN <<>>
    ELSE LET n == PieceLen(s)
         IN  <<SubSeq(s, 1, n)>> \o Encode(SubSeq(s, n + 1, Len(s)))

RECURSIVE Decode(_)
Decode(toks) == IF toks = <<>> THEN <<>> ELSE Head(toks) \o Decode(Tail(toks))

----------------------------------------------------------------------------
\* SectionChunker

ConfigRejectedStrict(size, overlap) == overlap > size

\* __init__: the configuration check
ConfigRejected(size, overlap) == overlap >= size

\* mutants of the sliding-window loop
RECURSIVE SlidingWindowsDropTail(_, _, _, _)
SlidingWindowsDropTail(start, total_tokens, size, overlap) ==
    LET step == size - overlap
        end == Min(start + size, total_tokens)
    IN  IF start >= total_tokens \/ step <= 0 \/ start + size > total_tokens THEN <<>>
        ELSE << <<start, end>> >>
                 \o SlidingWindowsDropTail(start + step, total_tokens, size, overlap)

RECURSIVE SlidingWindowsNoOverlap(_, _, _, _)
SlidingWindowsNoOverlap(start, total_tokens, size, overlap) ==
    LET step == size
        end == Min(start + size, total_tokens)
    IN  IF start >= total_tokens \/ step <= 0 THEN <<>>
        ELSE IF end >= total_tokens THEN << <<start, end>> >>
        ELSE << <<start, end>> >>
                 \o SlidingWindowsNoOverlap(start + step, total_tokens, size, overlap)

\* mutant: the loop stops only when the window runs past the last token
RECURSIVE SlidingWindowsLateBreak(_, _, _, _)
SlidingWindowsLateBreak(start, total_tokens, size, overlap) ==
    LET step == size - overlap
        end == Min(start + size, total_tokens)
    IN  IF start >= total_tokens \/ step <= 0 THEN <<>>
        ELSE IF start + size > total_tokens THEN << <<start, end>> >>
        ELSE << <<start, end>> >>
                 \o SlidingWindowsLateBreak(start + step, total_tokens, size, overlap)

RECURSIVE SlidingWindowsNoBreak(_, _, _, _)
SlidingWindowsNoBreak(start, total_tokens, size, overlap) ==
    LET step == size - overlap
        end == Min(start + size, total_tokens)
    IN  IF start >= total_tokens \/ step <= 0 THEN <<>>
        ELSE << <<start, end>> >>
                 \o SlidingWindowsNoBreak(start + step, total_tokens, size, overlap)

\* _split_tokens, the loop: for start in range(0, total_tokens, step), which
\* is empty for a negative step
RECURSIVE SlidingWindows(_, _, _, _)
SlidingWindows(start, total_tokens, size, overlap) ==
    LET step == size - overlap
        end == Min(start + size, total_tokens)
    IN  IF start >= total_tokens \/ step <= 0 THEN <<>>
        ELSE IF end >= total_tokens THEN << <<start, end>> >>
        ELSE << <<start, end>> >> \o SlidingWindows(start + step, total_tokens, size, overlap)

\* the token windows of _split_tokens; the early return hands back the whole text
TokenWindows(total_tokens, size, overlap) ==
    IF total_tokens <= size THEN << <<0, total_tokens>> >>
    ELSE SlidingWindows(0, total_tokens, size, overlap)

\* _ENCODER.decode(tokens[start:end]).strip()
WindowText(toks, w) == Strip(Decode(PySlice(toks, w[1], w[2])))

\* _split_tokens
SplitTokens(t, size, overlap) ==
    LET toks == Encode(t)
        w == TokenWindows(Len(toks), size, overlap)
    IN  IF Len(toks) <= size THEN <<t>>
        ELSE [i \in 1..Len(w) |-> WindowText(toks, w[i])]

\* _build_prefix
BuildPrefix(company_name, fiscal_year, section_title) ==
    <<"[">> \o company_name \o <<" ", "|", " ", "1", "0", "-", "K", " ", "F", "Y">>
        \o IntToStr(fiscal_year) \o <<" ", "|", " ">> \o section_title \o <<"]">>

ContentContextOneNewline(prefix, raw_text) == prefix \o <<"\n">> \o raw_text

\* content_context = f"{prefix}\n\n{raw_text}"
ContentContext(prefix, raw_text) == prefix \o <<"\n", "\n">> \o raw_text

\* mutant: the page computed from the 0-based index itself
EstimatePageZeroBased(chunk_index, total_chunks) ==
    LET chunks_per_page == 4
        total_pages == Max(1, CeilDiv(total_chunks, chunks_per_page))
        page == CeilDiv(chunk_index, chunks_per_page)
    IN  Min(page, total_pages)

\* _estimate_page
EstimatePage(chunk_index, total_chunks) ==
    LET chunks_per_page == 4
        total_pages == Max(1, CeilDiv(total_chunks, chunks_per_page))
        page == CeilDiv(chunk_index + 1, chunks_per_page)
    IN  Min(page, total_pages)

\* mutant: chunks numbered from 1
MakeChunkOneBased(idx, raw_text, total_chunks, a) ==
    [ section |-> a.section,
      section_title |-> a.section_title,
      content_type |-> "text",
      content_raw |-> raw_text,
      content_context |->
          ContentContext(BuildPrefix(a.company_name, a.fiscal_year, a.section_title), raw_text),
      chunk_index |-> idx + 1,
      metadata |->
          [ company |-> a.company_name,
            cik |-> a.cik,
            fiscal_year |-> a.fiscal_year,
            section |-> a.section,
            section_title |-> a.section_title,
            chunk_index |-> idx + 1,
            total_chunks |-> total_chunks,
            page_approx |-> EstimatePage(idx, total_chunks) ] ]

\* the ChunkData built for raw_chunks[idx] (idx is 0-based)
MakeChunk(idx, raw_text, total_chunks, a) ==
    [ section |-> a.section,
      section_title |-> a.section_title,
      content_type |-> "text",
      content_raw |-> raw_text,
      content_context |->
          ContentContext(BuildPrefix(a.company_name, a.fiscal_year, a.section_title), raw_text),
      chunk_index |-> idx,
      metadata |->
          [ company |-> a.company_name,
            cik |-> a.cik,
            fiscal_year |-> a.fiscal_year,
            section |-> a.section,
            section_title |-> a.section_title,
            chunk_index |-> idx,
            total_chunks |-> total_chunks,
            page_approx |-> EstimatePage(idx, total_chunks) ] ]

\* mutant: the blank test applied to the text as passed, not to the stripped text
ChunkSectionNoStrip(t, a, size, overlap) ==
    LET raw_chunks == SplitTokens(t, size, overlap)
    IN  IF t = <<>> THEN <<>>
        ELSE [i \in 1..Len(raw_chunks) |-> MakeChunk(i - 1, raw_chunks[i], Len(raw_chunks), a)]

\* chunk_section
ChunkSectionResult(t, a, size, overlap) ==
    LET stripped == Strip(t)
        raw_chunks == SplitTokens(stripped, size, overlap)
    IN  IF stripped = <<>> THEN <<>>
        ELSE [i \in 1..Len(raw_chunks) |-> MakeChunk(i - 1, raw_chunks[i], Len(raw_chunks), a)]

\* the arguments a caller passes besides the text
SectionArgs ==
    { [ section |-> "item_1a", section_title |-> <<"R", "F">>,
        company_name |-> <<"A">>, cik |-> "320193", fiscal_year |-> 2024 ],
      [ section |-> "item_7", section_title |-> <<"M">>,
        company_name |-> <<>>, cik |-> "", fiscal_year |-> 0 ],
      [ section |-> "item_8", section_title |-> <<"F", " ", "S">>,
        company_name |-> <<"B", " ", "C">>, cik |-> "7", fiscal_year |-> 19 ] }

NoArgs == [ section |-> "", section_title |-> <<>>, company_name |-> <<>>,
            cik |-> "", fiscal_year |-> 0 ]

ConfigValues == (0 - MaxNegative)..(MaxChunkSize + 1)

----------------------------------------------------------------------------
\* FilingParser: the document model
\*
\* A filing is the list of the children of <body>.  A child is a Tag or a
\* NavigableString; a Tag carries the text get_text() gives for it and the
\* <span> elements below it whose text has the form "Item <n>. <title>".
\* A span records the tag names on the way from the body child down to its
\* parent (the empty path: the span is itself a child of <body>) and whether
\* its style declares font-weight:700.

None == -1

Span(item, title, path, bold) ==
    [item |-> item, title |-> title, path |-> path, bold |-> bold]

TagBlock(txt, spans) == [kind |-> "tag", text |-> txt, spans |-> spans]

StrBlock == [kind |-> "str", text |-> "\n", spans |-> <<>>]

Blocks ==
    { TagBlock("alpha", <<>>),
      TagBlock("12", <<>>),
      TagBlock("", <<>>),
      StrBlock,
      TagBlock("Item 1. Business", <<Span("1", "Business", <<"div">>, TRUE)>>),
      TagBlock("Item 1A. Risk Factors", <<Span("1A", "Risk Factors", <<"div">>, TRUE)>>),
      TagBlock("Item 9. Changes", <<Span("9", "Changes", <<"div">>, TRUE)>>),
      TagBlock("Item 1. Overview", <<Span("1", "Overview", <<"div", "div">>, TRUE)>>),
      TagBlock("Item 1. Business", <<Span("1", "Business", <<"table", "tr", "td">>, TRUE)>>),
      TagBlock("Item 1A. Risk Factors",
               <<Span("1A", "Risk Factors", <<"div", "table", "tr", "td">>, TRUE)>>),
      TagBlock("Item 9. Changes", <<Span("9", "Changes", <<>>, TRUE)>>),
      TagBlock("Item 1. Business Item 9. Changes",
               <<Span("1", "Business", <<"div">>, TRUE), Span("9", "Changes", <<"div">>, TRUE)>>),
      TagBlock("Item 1. Business", <<Span("1", "Business", <<"div">>, FALSE)>>),
      TagBlock("Item 99. Other", <<Span("99", "Other", <<"div">>, TRUE)>>) }

Bodies == SeqsUpTo(Blocks, MaxBlocks)

\* the dei: fields of the ix: header, by lowercased local name
DeiFull ==
    [ entityregistrantname |-> "Acme", entitycentralindexkey |-> "0000320193",
      documentfiscalyearfocus |-> "2024", documentfiscalperiodfocus |-> "FY" ]

DeiNone == <<>>

HtmlFile(dei, body) ==
    [exists |-> TRUE, blank |-> FALSE, has_body |-> TRUE, dei |-> dei, body |-> body]

MissingFile ==
    [exists |-> FALSE, blank |-> FALSE, has_body |-> FALSE, dei |-> DeiNone, body |-> <<>>]

BlankFile ==
    [exists |-> TRUE, blank |-> TRUE, has_body |-> FALSE, dei |-> DeiNone, body |-> <<>>]

BodylessFile ==
    [exists |-> TRUE, blank |-> FALSE, has_body |-> FALSE, dei |-> DeiNone, body |-> <<>>]

Files ==
    {MissingFile, BlankFile, BodylessFile}
        \cup {HtmlFile(dei, body) : dei \in {DeiFull, DeiNone}, body \in Bodies}

\* str.lower() / str.upper() on the item designators
Lower(s) == IF s = "1A" THEN "1a" ELSE IF s = "7A" THEN "7a" ELSE s

Upper(s) == IF s = "1a" THEN "1A" ELSE IF s = "7a" THEN "7A" ELSE s

\* settings.PARSING_TARGET_SECTIONS
DefaultTargets == <<"1", "1A", "7", "7A", "8">>

TargetConfigs == {DefaultTargets, <<"1A", "9">>}

\* _ITEM_TO_SECTION
ItemToSection ==
    [ n \in {"1", "1a", "7", "7a", "8"} |->
        CASE n = "1" -> "ITEM_1"
          [] n = "1a" -> "ITEM_1A"
          [] n = "7" -> "ITEM_7"
          [] n = "7a" -> "ITEM_7A"
          [] n = "8" -> "ITEM_8" ]

\* _ITEM_ORDER
ItemOrder ==
    << "1", "1a", "1b", "1c", "2", "3", "4", "5", "6", "7", "7a", "8",
       "9", "9a", "9b", "9c", "10", "11", "12", "13", "14", "15", "16" >>

RECURSIVE Flatten(_)
Flatten(ss) == IF ss = <<>> THEN <<>> ELSE Head(ss) \o Flatten(Tail(ss))

Reverse(s) == [i \in 1..Len(s) |-> s[Len(s) + 1 - i]]

Range(s) == {s[i] : i \in 1..Len(s)}

----------------------------------------------------------------------------
\* FilingParser: the operations

\* int(fiscal_year_str), with ValueError caught and turned into 0
FiscalYearOf(str) ==
    CASE str = "2024" -> 2024
      [] str = "0" -> 0
      [] OTHER -> 0

DeiGet(dei, key, default) == IF key \in DOMAIN dei THEN dei[key] ELSE default

\* _extract_metadata
ExtractMetadata(f) ==
    [ company_name |-> DeiGet(f.dei, "entityregistrantname", ""),
      cik |-> DeiGet(f.dei, "entitycentralindexkey", ""),
      fiscal_year |-> FiscalYearOf(DeiGet(f.dei, "documentfiscalyearfocus", "0")),
      filing_period |-> DeiGet(f.dei, "documentfiscalperiodfocus", "") ]

NoMetadata == [company_name |-> "", cik |-> "", fiscal_year |-> 0, filing_period |-> ""]

\* soup.find_all("span", ...) in document order, each with the index of the
\* body child it lies in
AllSpans(body) ==
    Flatten([bi \in 1..Len(body) |->
                [k \in 1..Len(body[bi].spans) |-> [block |-> bi, span |-> body[bi].spans[k]]]])

\* the parent chain of span.parent: its ancestors-or-self up to the document
ParentChain(span) == Reverse(span.path) \o <<"body", "html", "[document]">>

\* _find_body_child: the walk from chain[k]; the index in the chain of the
\* ancestor that is a direct child of <body>, or None
RECURSIVE WalkUp(_, _)
WalkUp(chain, k) ==
    IF k + 1 <= Len(chain) /\ chain[k + 1] = "body" THEN k
    ELSE IF k + 1 > Len(chain) THEN None
    ELSE IF chain[k + 1] = "[document]" THEN None
    ELSE WalkUp(chain, k + 1)

FindBodyChild(chain) == WalkUp(chain, 1)

\* child_positions: the index of body child bi among the Tag children of <body>
TagPosition(body, bi) ==
    IF body[bi].kind = "tag"
    THEN Cardinality({j \in 1..(bi - 1) : body[j].kind = "tag"})
    ELSE None

\* span.find_parent("table") is not None
InsideTable(span) == "table" \in Range(span.path)

\* list.sort(key=position): a stable insertion sort
RECURSIVE InsertByPosition(_, _)
InsertByPosition(sorted, h) ==
    IF sorted = <<>> THEN <<h>>
    ELSE IF sorted[Len(sorted)].position <= h.position THEN Append(sorted, h)
    ELSE Append(InsertByPosition(SubSeq(sorted, 1, Len(sorted) - 1), h), sorted[Len(sorted)])

\* mutant: the headings sorted by descending position
RECURSIVE SortByPositionDescending(_)
SortByPositionDescending(hs) ==
    IF hs = <<>> THEN <<>>
    ELSE Reverse(InsertByPosition(Reverse(SortByPositionDescending(SubSeq(hs, 1, Len(hs) - 1))),
                                  hs[Len(hs)]))

RECURSIVE SortByPosition(_)
SortByPosition(hs) ==
    IF hs = <<>> THEN <<>>
    ELSE InsertByPosition(SortByPosition(SubSeq(hs, 1, Len(hs) - 1)), hs[Len(hs)])

\* mutant: the table-of-contents filter left out
IsDomHeadingNoTableFilter(body, s) ==
    /\ s.span.bold
    /\ FindBodyChild(ParentChain(s.span)) # None
    /\ TagPosition(body, s.block) >= 0

\* the test a span passes to become a heading under the DOM strategy
IsDomHeading(body, s) ==
    /\ s.span.bold
    /\ ~InsideTable(s.span)
    /\ FindBodyChild(ParentChain(s.span)) # None
    /\ TagPosition(body, s.block) >= 0

\* _find_section_headings
FindSectionHeadings(f) ==
    IF ~f.has_body THEN <<>>
    ELSE LET Keep(s) == IsDomHeading(f.body, s)
             kept == SelectSeq(AllSpans(f.body), Keep)
         IN  SortByPosition(
                 [i \in 1..Len(kept) |->
                     [ item_number |-> Lower(kept[i].span.item),
                       title |-> kept[i].span.title,
                       element |-> kept[i].block,
                       position |-> TagPosition(f.body, kept[i].block) ]])

\* _find_headings_fallback: every line of the flattened body text that has
\* the form of an Item heading; the element is <body> itself (index 0)
FindHeadingsFallback(f) ==
    IF ~f.has_body THEN <<>>
    ELSE LET found == AllSpans(f.body)
         IN  [i \in 1..Len(found) |->
                 [ item_number |-> Lower(found[i].span.item),
                   title |-> found[i].span.title,
                   element |-> 0,
                   position |-> i - 1 ]]

\* _extract_section_content: the walk over heading_element.next_sibling
RECURSIVE SiblingWalk(_, _, _, _)
SiblingWalk(body, i, next, acc) ==
    IF i > Len(body) THEN acc
    ELSE IF body[i].kind # "tag" THEN SiblingWalk(body, i + 1, next, acc)
    ELSE IF next # None /\ i = next THEN acc
    ELSE SiblingWalk(body, i + 1, next,
             [ html |-> Append(acc.html, i),
               text |-> IF body[i].text # "" THEN Append(acc.text, body[i].text)
                        ELSE acc.text ])

\* _extract_section_content; <body> (index 0) has no next sibling
ExtractSectionContent(body, heading_element, next_heading_element) ==
    IF heading_element = 0 THEN [html |-> <<>>, text |-> <<>>]
    ELSE SiblingWalk(body, heading_element + 1, next_heading_element,
                     [html |-> <<>>, text |-> <<>>])

\* _clean_text on a text given as its lines, none of which holds a footer:
\* "Table of Contents" lines and digit-only lines are emptied, three or more
\* newlines become two, and the whole is stripped
CleanLine(line) == IF line \in {"Table of Contents", "12"} THEN "" ELSE line

RECURSIVE CollapseBlank(_)
CollapseBlank(lines) ==
    IF Len(lines) < 3 THEN lines
    ELSE IF lines[2] = "" /\ lines[3] = "" /\ Len(lines) >= 4
         THEN CollapseBlank(<<lines[1]>> \o SubSeq(lines, 3, Len(lines)))
         ELSE <<lines[1]>> \o CollapseBlank(Tail(lines))

RECURSIVE StripLines(_)
StripLines(lines) ==
    IF lines = <<>> THEN <<>>
    ELSE IF Head(lines) = "" THEN StripLines(Tail(lines))
    ELSE IF lines[Len(lines)] = "" THEN StripLines(SubSeq(lines, 1, Len(lines) - 1))
    ELSE lines

CleanText(lines, company_name, fiscal_year) ==
    StripLines(CollapseBlank([i \in 1..Len(lines) |-> CleanLine(lines[i])]))

\* headings[i + 1].element if i + 1 < len(headings) else None   (i is 1-based here)
NextElement(hs, i) == IF i + 1 <= Len(hs) THEN hs[i + 1].element ELSE None

\* mutant: the configured target set is not consulted
IsExtractedIgnoreTargets(h, targets) == h.item_number \in DOMAIN ItemToSection

\* the test a heading passes to be extracted
IsExtracted(h, targets) ==
    /\ h.item_number \in Range(targets)
    /\ h.item_number \in DOMAIN ItemToSection

NoSlice == [html |-> <<None>>, text |-> <<>>]

\* the (html_content, text_content) of every heading the loop extracts
Slices(hs, body, targets) ==
    [i \in 1..Len(hs) |->
        IF IsExtracted(hs[i], targets)
        THEN ExtractSectionContent(body, hs[i].element, NextElement(hs, i))
        ELSE NoSlice]

\* mutant: sections.setdefault(section_type, content), the first entry stays
DictPutKeepFirst(d, content) ==
    IF \E j \in 1..Len(d) : d[j].section_type = content.section_type
    THEN d
    ELSE Append(d, content)

\* sections[section_type] = content: a dict keeps the place of a key it has
DictPut(d, content) ==
    IF \E j \in 1..Len(d) : d[j].section_type = content.section_type
    THEN [j \in 1..Len(d) |->
            IF d[j].section_type = content.section_type THEN content ELSE d[j]]
    ELSE Append(d, content)

\* mutant: the loop without the test for empty cleaned text
RECURSIVE ExtractLoopKeepEmpty(_, _, _, _, _, _)
ExtractLoopKeepEmpty(hs, i, body, targets, md, acc) ==
    IF i > Len(hs) THEN acc
    ELSE IF ~IsExtracted(hs[i], targets)
         THEN ExtractLoopKeepEmpty(hs, i + 1, body, targets, md, acc)
    ELSE LET slice == ExtractSectionContent(body, hs[i].element, NextElement(hs, i))
             cleaned_text == CleanText(slice.text, md.company_name, md.fiscal_year)
         IN  ExtractLoopKeepEmpty(hs, i + 1, body, targets, md,
                 DictPut(acc, [ section_type |-> ItemToSection[hs[i].item_number],
                                title |-> hs[i].title,
                                html_content |-> slice.html,
                                text_content |-> cleaned_text ]))

\* _extract_target_sections: the loop from heading i on
RECURSIVE ExtractLoop(_, _, _, _, _, _)
ExtractLoop(hs, i, body, targets, md, acc) ==
    IF i > Len(hs) THEN acc
    ELSE IF ~IsExtracted(hs[i], targets) THEN ExtractLoop(hs, i + 1, body, targets, md, acc)
    ELSE LET slice == ExtractSectionContent(body, hs[i].element, NextElement(hs, i))
             cleaned_text == CleanText(slice.text, md.company_name, md.fiscal_year)
         IN  IF cleaned_text = <<>> THEN ExtractLoop(hs, i + 1, body, targets, md, acc)
             ELSE ExtractLoop(hs, i + 1, body, targets, md,
                      DictPut(acc, [ section_type |-> ItemToSection[hs[i].item_number],
                                     title |-> hs[i].title,
                                     html_content |-> slice.html,
                                     text_content |-> cleaned_text ]))

ExtractTargetSections(hs, md, body, targets) == ExtractLoop(hs, 1, body, targets, md, <<>>)

\* order_index.get(num, -1): the 0-based place of num in _ITEM_ORDER
OrderIndex(num) ==
    IF \E k \in 1..Len(ItemOrder) : ItemOrder[k] = num
    THEN (CHOOSE k \in 1..Len(ItemOrder) : ItemOrder[k] = num) - 1
    ELSE -1

\* _validate_heading_order: the loop from heading i on; it only logs
RECURSIVE ValidateLoop(_, _, _, _)
ValidateLoop(hs, i, last_idx, log) ==
    IF i > Len(hs) THEN log
    ELSE LET idx == OrderIndex(hs[i].item_number)
         IN  IF idx < 0
             THEN ValidateLoop(hs, i + 1, last_idx,
                               Append(log, <<"Unknown item number", hs[i].item_number>>))
             ELSE ValidateLoop(hs, i + 1, Max(last_idx, idx),
                               IF idx < last_idx
                               THEN Append(log, <<"Out-of-order heading",
                                                  Upper(hs[i].item_number),
                                                  Upper(ItemOrder[last_idx + 1])>>)
                               ELSE log)

ValidateHeadingOrder(hs) == ValidateLoop(hs, 1, -1, <<>>)

\* all_found = [f"Item {h.item_number.upper()}: {h.title}" for h in headings]
AllFound(hs) == [i \in 1..Len(hs) |-> <<"Item", Upper(hs[i].item_number), hs[i].title>>]

----------------------------------------------------------------------------
\* FilingParser._clean_text, pass by pass
\*
\* Here a text is a sequence of symbols: the characters " ", "\n", "\t",
\* "|", the non-breaking space and the digit "7", and the words "Acme",
\* "2024", "Form", "10-K", "Table", "of", "contents", "x", which the inputs
\* never split.  A regular expression is a sequence of elements: a literal
\* symbol, a greedy repetition of a class with a least count, "^" and "$"
\* under re.MULTILINE.

Nbsp == "nbsp"

\* \s
Whitespace == {" ", "\n", "\t", Nbsp}

\* \d: the symbols that are made of digits only
DigitSymbols == {"7", "2024"}

Lit(v) == [k |-> "lit", v |-> v]

Rep(cls, min) == [k |-> "rep", cls |-> cls, min |-> min]

Bol == [k |-> "bol"]

Eol == [k |-> "eol"]

\* str.lower() as re.IGNORECASE applies it to the words of the pattern
CaseFold(v) ==
    CASE v = "Table" -> "table"
      [] v = "Contents" -> "contents"
      [] OTHER -> v

\* rf"{escaped_name}\s*\|\s*{fiscal_year}\s+Form\s+10-K\s*\|\s*\d+"
FooterPattern(company_name, fiscal_year) ==
    << Lit(company_name), Rep(Whitespace, 0), Lit("|"), Rep(Whitespace, 0),
       Lit(ToString(fiscal_year)), Rep(Whitespace, 1), Lit("Form"), Rep(Whitespace, 1),
       Lit("10-K"), Rep(Whitespace, 0), Lit("|"), Rep(Whitespace, 0), Rep(DigitSymbols, 1) >>

\* r"(?im)^\s*Table\s+of\s+Contents\s*$"
TocPattern ==
    << Bol, Rep(Whitespace, 0), Lit("Table"), Rep(Whitespace, 1), Lit("of"),
       Rep(Whitespace, 1), Lit("Contents"), Rep(Whitespace, 0), Eol >>

\* r"(?m)^\s*\d+\s*$"
PageNumberPattern == <<Bol, Rep(Whitespace, 0), Rep(DigitSymbols, 1), Rep(Whitespace, 0), Eol>>

\* r"\n{3,}"
BlankLinesPattern == <<Rep({"\n"}, 3)>>

\* r"[ \t]+\n"
TrailingPattern == <<Rep({" ", "\t"}, 1), Lit("\n")>>

\* the length of the longest run of symbols of cls in txt from position p (0-based)
RECURSIVE ClassRun(_, _, _)
ClassRun(cls, txt, p) ==
    IF p < Len(txt) /\ txt[p + 1] \in cls THEN 1 + ClassRun(cls, txt, p + 1) ELSE 0

\* the regex engine: the end of the match of pat[k..] at position p of txt,
\* or -1; a repetition takes the longest run first and gives symbols back
RECURSIVE MatchFrom(_, _, _, _, _)
RECURSIVE TryRep(_, _, _, _, _, _)
MatchFrom(pat, k, txt, p, ignorecase) ==
    IF k > Len(pat) THEN p
    ELSE LET e == pat[k]
         IN  CASE e.k = "lit" ->
                    IF /\ p < Len(txt)
                       /\ IF ignorecase THEN CaseFold(txt[p + 1]) = CaseFold(e.v)
                          ELSE txt[p + 1] = e.v
                    THEN MatchFrom(pat, k + 1, txt, p + 1, ignorecase)
                    ELSE -1
               [] e.k = "bol" ->
                    IF p = 0 \/ txt[p] = "\n"
                    THEN MatchFrom(pat, k + 1, txt, p, ignorecase)
                    ELSE -1
               [] e.k = "eol" ->
                    IF p = Len(txt) \/ txt[p + 1] = "\n"
                    THEN MatchFrom(pat, k + 1, txt, p, ignorecase)
                    ELSE -1
               [] e.k = "rep" ->
                    TryRep(pat, k, txt, p, ClassRun(e.cls, txt, p), ignorecase)

TryRep(pat, k, txt, p, n, ignorecase) ==
    IF n < pat[k].min THEN -1
    ELSE LET r == MatchFrom(pat, k + 1, txt, p + n, ignorecase)
         IN  IF r >= 0 THEN r ELSE TryRep(pat, k, txt, p, n - 1, ignorecase)

\* pattern.sub(repl, txt): leftmost matches, none overlapping, from position p on
RECURSIVE SubFrom(_, _, _, _, _)
SubFrom(pat, repl, txt, p, ignorecase) ==
    IF p >= Len(txt) THEN <<>>
    ELSE LET e == MatchFrom(pat, 1, txt, p, ignorecase)
         IN  IF e > p THEN repl \o SubFrom(pat, repl, txt, e, ignorecase)
             ELSE <<txt[p + 1]>> \o SubFrom(pat, repl, txt, p + 1, ignorecase)

ReSub(pat, repl, txt, ignorecase) == SubFrom(pat, repl, txt, 0, ignorecase)

\* 1. the footer pass, skipped without a company name or a fiscal year
RemoveFooters(txt, company_name, fiscal_year) ==
    IF company_name # "" /\ fiscal_year # 0
    THEN ReSub(FooterPattern(company_name, fiscal_year), <<>>, txt, FALSE)
    ELSE txt

\* 2. "Table of Contents" lines
RemoveTocLines(txt) == ReSub(TocPattern, <<>>, txt, TRUE)

\* 3. text.replace("\xa0", " ")
ReplaceNbsp(txt) == [i \in 1..Len(txt) |-> IF txt[i] = Nbsp THEN " " ELSE txt[i]]

\* 4. standalone page numbers
RemovePageNumbers(txt) == ReSub(PageNumberPattern, <<>>, txt, FALSE)

\* 5. blank lines collapsed, then trailing blanks removed
CollapseBlankLines(txt) == ReSub(BlankLinesPattern, <<"\n", "\n">>, txt, FALSE)

StripTrailing(txt) == ReSub(TrailingPattern, <<"\n">>, txt, FALSE)

\* str.strip() on symbols
RECURSIVE StripWhitespace(_)
StripWhitespace(txt) ==
    IF txt = <<>> THEN <<>>
    ELSE IF Head(txt) \in Whitespace THEN StripWhitespace(Tail(txt))
    ELSE IF txt[Len(txt)] \in Whitespace THEN StripWhitespace(SubSeq(txt, 1, Len(txt) - 1))
    ELSE txt

\* mutant: the page-number pass run first, before the footer pass
CleanTextPageNumbersFirst(txt, company_name, fiscal_year) ==
    StripWhitespace(
        StripTrailing(
            CollapseBlankLines(
                ReplaceNbsp(
                    RemoveTocLines(
                        RemoveFooters(RemovePageNumbers(txt), company_name, fiscal_year))))))

\* _clean_text
CleanTextPasses(txt, company_name, fiscal_year) ==
    StripWhitespace(
        StripTrailing(
            CollapseBlankLines(
                RemovePageNumbers(
                    ReplaceNbsp(
                        RemoveTocLines(
                            RemoveFooters(txt, company_name, fiscal_year)))))))

\* the fragments the input texts are built from
FooterHead == <<"Acme", " ", "|", " ", "2024", " ", "Form", " ", "10-K", " ", "|">>

TocLine == <<"Table", " ", "of", " ", "contents">>

MixedFrags == {FooterHead, TocLine, <<"7">>, <<"\n">>, <<" ">>, <<Nbsp>>, <<"x">>}

FooterFrags == {FooterHead, <<"7">>, <<" ">>}

BlankFrags == {<<"x">>, <<"\n">>, <<" ">>}

CleanInputs ==
    {Flatten(fs) : fs \in SeqsUpTo(MixedFrags, MaxMixedFrags)}
        \cup {Flatten(fs) : fs \in SeqsUpTo(FooterFrags, MaxFooterFrags)}
        \cup {Flatten(fs) : fs \in SeqsUpTo(BlankFrags, MaxBlankFrags)}

----------------------------------------------------------------------------
\* IngestionService
\*
\* The documents table is the set of its committed rows.  A call of ingest
\* has a session of its own (get_db), so what it adds is in the table only
\* once it has committed.  EDGAR, the file cache and the parser are the
\* environment: each step takes one of the outcomes its code can have.

\* str.upper() on the letters of the tickers
UpperChar(c) ==
    CASE c = "a" -> "A"
      [] c = "p" -> "P"
      [] c = "l" -> "L"
      [] OTHER -> c

StrUpper(str) == [i \in 1..Len(str) |-> UpperChar(str[i])]

Request(ticker, fiscal_year) == [ticker |-> ticker, fiscal_year |-> fiscal_year]

Requests ==
    { Request(<<"A", "A", "P", "L">>, 2024), Request(<<"a", "a", "p", "l">>, 2024),
      Request(<<"A", "A", "P", "L">>, 2023), Request(<<"M", "S", "F", "T">>, 2024) }

\* settings.CHUNK_SIZE and settings.CHUNK_OVERLAP, read from the environment
IngestConfigs == {[size |-> 2, overlap |-> 1], [size |-> 3, overlap |-> 1]}

\* the FilingInfo EDGAR has for a request
FilingFor(r) == [company_name |-> <<"A">>, cik |-> "320193", fiscal_year |-> r.fiscal_year]

\* what parse_html can return as sections: distinct section types in any
\* order, every text non-empty and stripped
SectionTexts == {<<"a", "1">>, <<"a", "1", "a", "1", "a">>}

SectionTitles == [key \in {"ITEM_1", "ITEM_1A", "ITEM_7"} |->
                    CASE key = "ITEM_1" -> <<"B">>
                      [] key = "ITEM_1A" -> <<"R", "F">>
                      [] key = "ITEM_7" -> <<"M">>]

SectionMaps ==
    {m \in SeqsUpTo({[section_type |-> key, title |-> SectionTitles[key], text_content |-> t] :
                        key \in DOMAIN SectionTitles, t \in SectionTexts}, MaxSections) :
        \A i, j \in 1..Len(m) : m[i].section_type = m[j].section_type => i = j}

\* the outcomes of parse_html: an exception, or the sections of a ParsedFiling
ParseOutcomes ==
    {[error |-> e, sections |-> <<>>] : e \in {"FileNotFoundError", "ParsingError"}}
        \cup {[error |-> "", sections |-> m] : m \in SectionMaps}

\* no Document / no FilingInfo (None)
NoDocument ==
    [ticker |-> <<>>, fiscal_year |-> 0, company_name |-> <<>>, cik |-> "", processed |-> FALSE]

NoFiling == [company_name |-> <<>>, cik |-> "", fiscal_year |-> 0]

\* mutant: the tickers compared as they are written
GetByTickerAndYearCaseSensitive(rows, ticker, fiscal_year) ==
    {d \in rows : d.ticker = ticker /\ d.fiscal_year = fiscal_year}

\* DocumentRepository.get_by_ticker_and_year: the rows the statement selects
GetByTickerAndYear(rows, ticker, fiscal_year) ==
    {d \in rows : StrUpper(d.ticker) = StrUpper(ticker) /\ d.fiscal_year = fiscal_year}

\* Document(...) as ingest builds it
NewDocument(r, f) ==
    [ ticker |-> StrUpper(r.ticker), fiscal_year |-> r.fiscal_year,
      company_name |-> f.company_name, cik |-> f.cik, processed |-> FALSE ]

\* the loop over parsed.sections.items(): all_chunks.extend(chunks)
ChunkAll(secs, f, fiscal_year, cfg) ==
    Flatten([j \in 1..Len(secs) |->
                ChunkSectionResult(secs[j].text_content,
                                   [ section |-> secs[j].section_type,
                                     section_title |-> secs[j].title,
                                     company_name |-> f.company_name,
                                     cik |-> f.cik,
                                     fiscal_year |-> fiscal_year ],
                                   cfg.size, cfg.overlap)])

\* mutant: only the chunk_index attribute is renumbered
ReindexAttributeOnly(cs) == [i \in 1..Len(cs) |-> [cs[i] EXCEPT !.chunk_index = i - 1]]

\* for idx, chunk in enumerate(all_chunks): ...
Reindex(cs) ==
    [i \in 1..Len(cs) |->
        [cs[i] EXCEPT !.chunk_index = i - 1,
                      !.metadata.chunk_index = i - 1,
                      !.metadata.total_chunks = Len(cs)]]

\* the outcomes of _fetch_and_download
EdgarOutcomes ==
    {"ok", "TickerNotFoundError", "FilingNotFoundError", "EdgarClientError", "OSError"}

\* the requests and the download an outcome of _fetch_and_download stands for
EdgarEffects(outcome) ==
    CASE outcome = "TickerNotFoundError" -> <<"edgar">>
      [] outcome = "EdgarClientError" -> <<"edgar">>
      [] outcome = "FilingNotFoundError" -> <<"edgar", "edgar">>
      [] outcome = "OSError" -> <<"edgar", "edgar", "download">>
      [] outcome = "ok" -> <<"edgar", "edgar", "download">>

\* how embed_and_store can end: the model call or the insert may fail
StoreOutcomes == { "ok", "RuntimeError", "SQLAlchemyError" }

IngestEnded ==
    ipc \in { "returned", "DuplicateDocumentError", "MultipleResultsFound",
              "TickerNotFoundError", "FilingNotFoundError", "EdgarClientError",
              "IngestionError", "SQLAlchemyError", "RuntimeError" }

IngestIdle ==
    /\ ipc = "idle"
    /\ req = Request(<<>>, 0)
    /\ icfg = [size |-> 0, overlap |-> 0]
    /\ db = {}
    /\ existing = NoDocument
    /\ filing = NoFiling
    /\ parsed = <<>>
    /\ document = NoDocument
    /\ all_chunks = <<>>
    /\ effects = <<>>
    /\ cause = ""

\* ---- EdgarClient._request_with_retry ----

\* _MAX_RETRIES
MAX_RETRIES == 3

\* _RETRY_BACKOFF_BASE, in seconds
RETRY_BACKOFF_BASE == 1

\* what one self._client.get(url) can end in: a response with a status
\* code, or an httpx exception (status 0)
Status(code) == [status |-> code, exc |-> ""]

Raised(name) == [status |-> 0, exc |-> name]

\* TimeoutException is a subclass of RequestError; its handler comes first
GetOutcomes ==
    { Status(code) : code \in { 200, 204, 403, 404, 429, 500, 503 } }
        \cup { Raised("TimeoutException"), Raised("RequestError") }

NoResponse == Status(0)

\* the outcomes after which the loop goes on to the next attempt: the 429
\* branch, the >= 500 branch and the two except clauses
RetriedAfterAnyStatus(outcome) == outcome.status # 200

Retried(outcome) ==
    \/ outcome.exc \in { "TimeoutException", "RequestError" }
    \/ outcome.exc = "" /\ outcome.status = 429
    \/ outcome.exc = "" /\ outcome.status >= 500

\* wait = _RETRY_BACKOFF_BASE * (2 ** (attempt - 1))
Backoff(n) == RETRY_BACKOFF_BASE * 2 ^ (n - 1)

EdgarEnded == epc \in { "returned", "EdgarClientError" }

EdgarIdle ==
    /\ epc = "idle"
    /\ max_concurrent = 0
    /\ sem = 0
    /\ others = 0
    /\ attempt = 0
    /\ gets = <<>>
    /\ last_exception = ""
    /\ response = NoResponse
    /\ wait = 0

WalkIdle ==
    /\ wpc = "idle"
    /\ ancestry = <<>>
    /\ current = 0
    /\ body_div = None

RaceIdle ==
    /\ rpc = <<>>
    /\ rreq = <<>>
    /\ matched = <<>>
    /\ pending = <<>>
    /\ documents = {}

CleanerIdle ==
    /\ kpc = "idle"
    /\ raw = <<>>
    /\ cname = ""
    /\ cyear = 0
    /\ cleaned = <<>>

ParserIdle ==
    /\ ppc = "idle"
    /\ file = MissingFile
    /\ target_sections = <<>>
    /\ metadata = NoMetadata
    /\ strategy = "none"
    /\ headings = <<>>
    /\ extracted = <<>>
    /\ sections = <<>>
    /\ all_sections_found = <<>>
    /\ order_warnings = <<>>

ChunkerIdle ==
    /\ cpc = "idle"
    /\ chunk_size = 0
    /\ chunk_overlap = 0
    /\ text = <<>>
    /\ args = NoArgs
    /\ tokens = <<>>
    /\ windows = <<>>
    /\ chunks = <<>>

----------------------------------------------------------------------------
\* SectionChunker: construction and calls

InitChunker ==
    /\ cpc = "new"
    /\ chunk_size = 0
    /\ chunk_overlap = 0
    /\ text = <<>>
    /\ args = NoArgs
    /\ tokens = <<>>
    /\ windows = <<>>
    /\ chunks = <<>>
    /\ ParserIdle
    /\ CleanerIdle
    /\ IngestIdle
    /\ EdgarIdle
    /\ WalkIdle
    /\ RaceIdle

\* SectionChunker(chunk_size=size, chunk_overlap=overlap)
Construct(size, overlap) ==
    /\ cpc = "new"
    /\ chunk_size' = size
    /\ chunk_overlap' = overlap
    /\ cpc' = IF ConfigRejected(size, overlap) THEN "ValueError" ELSE "ready"
    /\ UNCHANGED <<text, args, tokens, windows, chunks>>
    /\ UNCHANGED besideChunker

\* chunker.chunk_section(text, section, section_title, company_name, cik, fiscal_year)
ChunkSection(t, a) ==
    /\ cpc = "ready"
    /\ text' = t
    /\ args' = a
    /\ tokens' = Encode(Strip(t))
    /\ windows' = IF Strip(t) = <<>> THEN <<>>
                  ELSE TokenWindows(Len(Encode(Strip(t))), chunk_size, chunk_overlap)
    /\ chunks' = ChunkSectionResult(t, a, chunk_size, chunk_overlap)
    /\ cpc' = "returned"
    /\ UNCHANGED <<chunk_size, chunk_overlap>>
    /\ UNCHANGED besideChunker

\* the caller takes the list; the chunker is ready for the next section
NextSection ==
    /\ cpc = "returned"
    /\ cpc' = "ready"
    /\ text' = <<>>
    /\ args' = NoArgs
    /\ tokens' = <<>>
    /\ windows' = <<>>
    /\ chunks' = <<>>
    /\ UNCHANGED <<chunk_size, chunk_overlap>>
    /\ UNCHANGED besideChunker

NextChunker ==
    \/ \E size \in (0 - MaxNegative)..MaxChunkSize, overlap \in ConfigValues :
            Construct(size, overlap)
    \/ \E t \in Texts, a \in SectionArgs : ChunkSection(t, a)
    \/ NextSection

SpecChunker == InitChunker /\ [][NextChunker]_vars

------------------------------------------------------------

----------------------------------------------------------------------------
\* FilingParser: parse_html, step by step

\* FilingParser(target_sections=...) and the file parse_html is called on
InitParser ==
    /\ ChunkerIdle
    /\ CleanerIdle
    /\ IngestIdle
    /\ EdgarIdle
    /\ WalkIdle
    /\ RaceIdle
    /\ ppc = "start"
    /\ file \in Files
    /\ \E t \in TargetConfigs : target_sections = [i \in 1..Len(t) |-> Lower(t[i])]
    /\ metadata = NoMetadata
    /\ strategy = "none"
    /\ headings = <<>>
    /\ extracted = <<>>
    /\ sections = <<>>
    /\ all_sections_found = <<>>
    /\ order_warnings = <<>>

\* mutant: the existence test left out, the file is read straight away
CheckExistsSkipped ==
    /\ ppc = "start"
    /\ ppc' = "load"
    /\ UNCHANGED <<file, target_sections, metadata, strategy, headings, extracted,
                   sections, all_sections_found, order_warnings>>
    /\ UNCHANGED besideParser

\* if not html_path.exists(): raise FileNotFoundError
CheckExists ==
    /\ ppc = "start"
    /\ ppc' = IF file.exists THEN "load" ELSE "FileNotFoundError"
    /\ UNCHANGED <<file, target_sections, metadata, strategy, headings, extracted,
                   sections, all_sections_found, order_warnings>>
    /\ UNCHANGED besideParser

\* soup = self._load_html(html_path); metadata = self._extract_metadata(soup)
LoadHtml ==
    /\ ppc = "load"
    /\ IF file.blank
       THEN ppc' = "ParsingError" /\ UNCHANGED metadata
       ELSE ppc' = "detect" /\ metadata' = ExtractMetadata(file)
    /\ UNCHANGED <<file, target_sections, strategy, headings, extracted,
                   sections, all_sections_found, order_warnings>>
    /\ UNCHANGED besideParser

\* mutant: the text fallback is tried whatever the DOM strategy found
DetectDomAlwaysFallback ==
    /\ ppc = "detect"
    /\ headings' = FindSectionHeadings(file)
    /\ strategy' = "dom"
    /\ ppc' = "fallback"
    /\ UNCHANGED <<file, target_sections, metadata, extracted, sections, all_sections_found,
                   order_warnings>>
    /\ UNCHANGED besideParser

\* headings = self._find_section_headings(soup)
DetectDom ==
    /\ ppc = "detect"
    /\ headings' = FindSectionHeadings(file)
    /\ strategy' = "dom"
    /\ ppc' = IF FindSectionHeadings(file) = <<>> THEN "fallback" ELSE "extract"
    /\ UNCHANGED <<file, target_sections, metadata, extracted, sections, all_sections_found,
                   order_warnings>>
    /\ UNCHANGED besideParser

\* if not headings: headings = self._find_headings_fallback(soup)
DetectFallback ==
    /\ ppc = "fallback"
    /\ headings' = FindHeadingsFallback(file)
    /\ strategy' = "dom+fallback"
    /\ ppc' = IF FindHeadingsFallback(file) = <<>> THEN "ParsingError" ELSE "extract"
    /\ UNCHANGED <<file, target_sections, metadata, extracted, sections, all_sections_found,
                   order_warnings>>
    /\ UNCHANGED besideParser

\* mutant: a heading the order validation warns about is rejected, not logged
ExtractAndReturnStrictOrder ==
    /\ ppc = "extract"
    /\ order_warnings' = ValidateHeadingOrder(headings)
    /\ IF ValidateHeadingOrder(headings) # <<>>
       THEN /\ ppc' = "ParsingError"
            /\ UNCHANGED <<all_sections_found, extracted, sections>>
       ELSE /\ all_sections_found' = AllFound(headings)
            /\ extracted' = Slices(headings, file.body, target_sections)
            /\ sections' = ExtractTargetSections(headings, metadata, file.body, target_sections)
            /\ ppc' = "returned"
    /\ UNCHANGED <<file, target_sections, metadata, strategy, headings>>
    /\ UNCHANGED besideParser

\* self._validate_heading_order(headings); all_found = [...];
\* sections = self._extract_target_sections(...); return ParsedFiling(...)
ExtractAndReturn ==
    /\ ppc = "extract"
    /\ order_warnings' = ValidateHeadingOrder(headings)
    /\ all_sections_found' = AllFound(headings)
    /\ extracted' = Slices(headings, file.body, target_sections)
    /\ sections' = ExtractTargetSections(headings, metadata, file.body, target_sections)
    /\ ppc' = "returned"
    /\ UNCHANGED <<file, target_sections, metadata, strategy, headings>>
    /\ UNCHANGED besideParser

NextParser ==
    \/ CheckExists
    \/ LoadHtml
    \/ DetectDom
    \/ DetectFallback
    \/ ExtractAndReturn

SpecParser == InitParser /\ [][NextParser]_vars

----------------------------------------------------------------------------
\* FilingParser._clean_text: one call

\* the arguments of the call
InitCleaner ==
    /\ ChunkerIdle
    /\ ParserIdle
    /\ IngestIdle
    /\ EdgarIdle
    /\ WalkIdle
    /\ RaceIdle
    /\ kpc = "call"
    /\ raw \in CleanInputs
    /\ cname \in {"Acme", ""}
    /\ cyear \in {2024, 0}
    /\ cleaned = <<>>

\* self._clean_text(text, company_name, fiscal_year)
CleanTextCall ==
    /\ kpc = "call"
    /\ cleaned' = CleanTextPasses(raw, cname, cyear)
    /\ kpc' = "returned"
    /\ UNCHANGED <<raw, cname, cyear>>
    /\ UNCHANGED besideCleaner

NextCleaner == CleanTextCall

SpecCleaner == InitCleaner /\ [][NextCleaner]_vars

----------------------------------------------------------------------------
\* IngestionService: calls of ingest, one after the other

\* IngestionService(embedding_service) and the first call, on an empty table
InitIngest ==
    /\ ChunkerIdle
    /\ ParserIdle
    /\ CleanerIdle
    /\ EdgarIdle
    /\ WalkIdle
    /\ RaceIdle
    /\ ipc = "check"
    /\ req \in Requests
    /\ icfg \in IngestConfigs
    /\ db = {}
    /\ existing = NoDocument
    /\ filing = NoFiling
    /\ parsed = <<>>
    /\ document = NoDocument
    /\ all_chunks = <<>>
    /\ effects = <<>>
    /\ cause = ""

\* 1. existing = await doc_repo.get_by_ticker_and_year(ticker, fiscal_year);
\* scalar_one_or_none() raises when the statement selects several rows
DuplicateCheck ==
    /\ ipc = "check"
    /\ LET rows == GetByTickerAndYear(db, req.ticker, req.fiscal_year)
       IN  IF rows = {}
           THEN ipc' = "fetch" /\ existing' = NoDocument
           ELSE IF Cardinality(rows) = 1
                THEN ipc' = "DuplicateDocumentError" /\ existing' = CHOOSE d \in rows : TRUE
                ELSE ipc' = "MultipleResultsFound" /\ existing' = NoDocument
    /\ UNCHANGED <<req, icfg, db, filing, parsed, document, all_chunks, effects, cause>>
    /\ UNCHANGED besideIngest

\* 2-4. filing, html_path = await self._fetch_and_download(ticker, fiscal_year)
FetchAndDownload(outcome) ==
    /\ ipc = "fetch"
    /\ effects' = effects \o EdgarEffects(outcome)
    /\ filing' = IF outcome = "ok" THEN FilingFor(req) ELSE NoFiling
    /\ ipc' = CASE outcome = "ok" -> "parse"
                [] outcome = "OSError" -> "IngestionError"
                [] OTHER -> outcome
    /\ cause' = IF outcome = "OSError" THEN "OSError" ELSE ""
    /\ UNCHANGED <<req, icfg, db, existing, parsed, document, all_chunks>>
    /\ UNCHANGED besideIngest

\* 5. parsed = self._parser.parse_html(html_path); FileNotFoundError and
\* ParsingError become IngestionError
ParseFiling(outcome) ==
    /\ ipc = "parse"
    /\ effects' = Append(effects, "parse")
    /\ IF outcome.error # ""
       THEN ipc' = "IngestionError" /\ cause' = outcome.error /\ UNCHANGED parsed
       ELSE ipc' = "create" /\ parsed' = outcome.sections /\ UNCHANGED cause
    /\ UNCHANGED <<req, icfg, db, existing, filing, document, all_chunks>>
    /\ UNCHANGED besideIngest

\* 4b. document = Document(...); await doc_repo.create(document); an error
\* of the flush is not caught
CreateDocument(ok) ==
    /\ ipc = "create"
    /\ document' = NewDocument(req, filing)
    /\ effects' = Append(effects, "insert document")
    /\ ipc' = IF ok THEN "chunk" ELSE "SQLAlchemyError"
    /\ UNCHANGED <<req, icfg, db, existing, filing, parsed, all_chunks, cause>>
    /\ UNCHANGED besideIngest

\* the chunking loop without the test for an empty list
ChunkSectionsNoEmptyTest ==
    /\ ipc = "chunk"
    /\ effects' = effects \o [j \in 1..Len(parsed) |-> "chunk"]
    /\ ipc' = "embed"
    /\ all_chunks' = Reindex(ChunkAll(parsed, filing, req.fiscal_year, icfg))
    /\ UNCHANGED <<req, icfg, db, existing, filing, parsed, document, cause>>
    /\ UNCHANGED besideIngest

\* 6. the chunking loop, the test for an empty list, the re-indexing
ChunkSections ==
    /\ ipc = "chunk"
    /\ LET produced == ChunkAll(parsed, filing, req.fiscal_year, icfg)
       IN  /\ effects' = effects \o [j \in 1..Len(parsed) |-> "chunk"]
           /\ IF produced = <<>>
              THEN ipc' = "IngestionError" /\ all_chunks' = <<>>
              ELSE ipc' = "embed" /\ all_chunks' = Reindex(produced)
    /\ UNCHANGED <<req, icfg, db, existing, filing, parsed, document, cause>>
    /\ UNCHANGED besideIngest

\* 7. await self._embedding_service.embed_and_store(all_chunks, document.id, session)
\* embed_and_store: self.embed_texts(texts), then repo.create_many(chunks);
\* neither error is caught
EmbedAndStore(outcome) ==
    /\ ipc = "embed"
    /\ effects' = effects \o (IF outcome = "RuntimeError"
                              THEN <<"embed">>
                              ELSE <<"embed", "insert chunks">>)
    /\ ipc' = IF outcome = "ok" THEN "mark" ELSE outcome
    /\ UNCHANGED <<req, icfg, db, existing, filing, parsed, document, all_chunks, cause>>
    /\ UNCHANGED besideIngest

\* mutant: step 8 left out, the commit follows embed_and_store
MarkProcessedSkipped(ok) ==
    /\ ipc = "mark"
    /\ ipc' = IF ok THEN "commit" ELSE "SQLAlchemyError"
    /\ UNCHANGED <<req, icfg, db, existing, filing, parsed, document, all_chunks,
                   effects, cause>>
    /\ UNCHANGED besideIngest

\* 8. await doc_repo.update_processed(document.id, True); document.processed = True
MarkProcessed(ok) ==
    /\ ipc = "mark"
    /\ effects' = Append(effects, "update processed")
    /\ IF ok
       THEN ipc' = "commit" /\ document' = [document EXCEPT !.processed = TRUE]
       ELSE ipc' = "SQLAlchemyError" /\ UNCHANGED document
    /\ UNCHANGED <<req, icfg, db, existing, filing, parsed, all_chunks, cause>>
    /\ UNCHANGED besideIngest

\* await session.commit(); return document, len(all_chunks)
Commit(ok) ==
    /\ ipc = "commit"
    /\ effects' = Append(effects, "commit")
    /\ IF ok
       THEN ipc' = "returned" /\ db' = db \cup {document}
       ELSE ipc' = "SQLAlchemyError" /\ UNCHANGED db
    /\ UNCHANGED <<req, icfg, existing, filing, parsed, document, all_chunks, cause>>
    /\ UNCHANGED besideIngest

\* the call has ended and its session is closed; the next call
NextIngest(r) ==
    /\ IngestEnded
    /\ ipc' = "check"
    /\ req' = r
    /\ existing' = NoDocument
    /\ filing' = NoFiling
    /\ parsed' = <<>>
    /\ document' = NoDocument
    /\ all_chunks' = <<>>
    /\ effects' = <<>>
    /\ cause' = ""
    /\ UNCHANGED <<icfg, db>>
    /\ UNCHANGED besideIngest

NextIngestion ==
    \/ DuplicateCheck
    \/ \E outcome \in EdgarOutcomes : FetchAndDownload(outcome)
    \/ \E outcome \in ParseOutcomes : ParseFiling(outcome)
    \/ \E ok \in BOOLEAN : CreateDocument(ok)
    \/ ChunkSections
    \/ \E outcome \in StoreOutcomes : EmbedAndStore(outcome)
    \/ \E ok \in BOOLEAN : MarkProcessed(ok)
    \/ \E ok \in BOOLEAN : Commit(ok)
    \/ \E r \in Requests : NextIngest(r)

SpecIngest == InitIngest /\ [][NextIngestion]_vars

----------------
\* Claims about the SectionChunker

Returned == cpc = "returned"

NonBlank == Strip(text) # <<>>

ValidOverlap == 0 <= chunk_overlap /\ chunk_overlap < chunk_size

TotalTokens == Len(tokens)

WinLen(w) == w[2] - w[1]

\* C1 (coverage): with 0 <= overlap < chunk_size and a non-blank text of N
\* tokens, every token position 0..N-1 lies inside a window the chunker
\* emitted, and the chunk of that window is the decoded, stripped window.
C1_Coverage ==
    (Returned /\ NonBlank /\ ValidOverlap) =>
        /\ Len(chunks) = Len(windows)
        /\ \A p \in 0..(TotalTokens - 1) :
              \E i \in 1..Len(windows) :
                  /\ windows[i][1] <= p
                  /\ p < windows[i][2]
                  /\ chunks[i].content_raw = WindowText(tokens, windows[i])

C1_Witness ==
    /\ Returned /\ NonBlank /\ ValidOverlap
    /\ Len(windows) >= 2
    /\ WinLen(windows[Len(windows)]) < chunk_size
    /\ chunk_overlap = 0

\* C2 (overlap): with overlap > 0 and at least two windows, every window but
\* the first starts `overlap` tokens before the end of its predecessor, and
\* the last `overlap` tokens of a window are the first `overlap` tokens of the
\* next one, the final shorter window included.
C2_Overlap ==
    (Returned /\ Len(windows) >= 2 /\ chunk_overlap > 0) =>
        \A i \in 1..(Len(windows) - 1) :
            /\ windows[i + 1][1] = windows[i][2] - chunk_overlap
            /\ WinLen(windows[i + 1]) >= chunk_overlap
            /\ PySlice(tokens, windows[i][2] - chunk_overlap, windows[i][2])
                 = PySlice(tokens, windows[i + 1][1], windows[i + 1][1] + chunk_overlap)
            /\ Len(PySlice(tokens, windows[i][2] - chunk_overlap, windows[i][2])) = chunk_overlap

C2_Witness ==
    /\ Returned /\ chunk_overlap > 0
    /\ Len(windows) >= 2
    /\ WinLen(windows[Len(windows)]) < chunk_size

\* C3 (single-chunk boundary): a non-blank text of N tokens gives exactly one
\* chunk holding the whole stripped text when N <= chunk_size, and at least
\* two chunks when N = chunk_size + 1.  (Stated for chunk_size >= 1.)
C3_SingleChunkBoundary ==
    (Returned /\ NonBlank /\ chunk_size >= 1) =>
        /\ TotalTokens <= chunk_size =>
              /\ Len(chunks) = 1
              /\ chunks[1].content_raw = Strip(text)
              /\ chunks[1].metadata.total_chunks = 1
        /\ TotalTokens = chunk_size + 1 => Len(chunks) >= 2

\* the same boundary for the configurations with 0 <= overlap < chunk_size
C3_BoundaryValidOverlap == ValidOverlap => C3_SingleChunkBoundary

\* C4 (sequential indexing): the chunks of one call carry chunk_index
\* 0..n-1 in list order, the same index in their metadata, and total_chunks = n.
C4_SequentialIndexing ==
    Returned =>
        \A i \in 1..Len(chunks) :
            /\ chunks[i].chunk_index = i - 1
            /\ chunks[i].metadata.chunk_index = chunks[i].chunk_index
            /\ chunks[i].metadata.total_chunks = Len(chunks)

C4_Witness == Returned /\ Len(chunks) >= 3

\* C5 (prefix round trip): the embedding text is the prefix
\* "[<company> | 10-K FY<year> | <title>]", two newlines and the lexical text;
\* cutting the prefix off gives the lexical text, which is the bare window text.
C5_PrefixRoundTrip ==
    Returned =>
        \A i \in 1..Len(chunks) :
            LET prefix == BuildPrefix(args.company_name, args.fiscal_year, args.section_title)
                           \o <<"\n", "\n">>
                ctx == chunks[i].content_context
            IN  /\ Len(ctx) >= Len(prefix)
                /\ SubSeq(ctx, 1, Len(prefix)) = prefix
                /\ SubSeq(ctx, Len(prefix) + 1, Len(ctx)) = chunks[i].content_raw
                /\ chunks[i].content_raw = WindowText(tokens, windows[i])

C5_Witness ==
    /\ Returned /\ Len(chunks) >= 2
    /\ args.company_name # <<>>
    /\ chunks[2].content_raw # <<>>

\* C6 (construction validation): the constructor raises exactly when
\* overlap >= chunk_size, so overlap = chunk_size - 1 is accepted and
\* chunk_section never runs with overlap >= chunk_size.
C6_ConstructionValidation ==
    cpc # "new" => (cpc = "ValueError" <=> chunk_overlap >= chunk_size)

C6_Witness == cpc = "ValueError" /\ chunk_overlap = chunk_size

\* C7 (blank input): chunk_section returns the empty list for an empty or
\* whitespace-only text and at least one chunk for any other text.
C7_BlankInput == Returned => (chunks = <<>> <=> Strip(text) = <<>>)

C7_Witness == Returned /\ text # <<>> /\ Strip(text) = <<>> /\ chunks = <<>>

\* C8 (window size): with more tokens than chunk_size and 0 <= overlap <
\* chunk_size, every window holds 1..chunk_size tokens, every window but the
\* last holds exactly chunk_size, and only the last window ends at the end of
\* the token sequence.
C8_WindowSize ==
    (Returned /\ ValidOverlap /\ TotalTokens > chunk_size) =>
        /\ Len(windows) >= 1
        /\ \A i \in 1..Len(windows) :
              /\ 0 <= windows[i][1]
              /\ windows[i][2] <= TotalTokens
              /\ 1 <= WinLen(windows[i])
              /\ WinLen(windows[i]) <= chunk_size
              /\ i < Len(windows) => WinLen(windows[i]) = chunk_size
              /\ (windows[i][2] = TotalTokens) <=> (i = Len(windows))

C8_Witness ==
    /\ Returned /\ ValidOverlap /\ TotalTokens > chunk_size
    /\ Len(windows) >= 3
    /\ WinLen(windows[Len(windows)]) = 1

----------------------------------------------------------------------------
\* Claims about the FilingParser

ParseReturned == ppc = "returned"

\* the bold Item spans outside every table that have an ancestor among the
\* children of <body>, in document order
BodyLevelHeadingSpans ==
    LET Good(s) == s.span.bold /\ "table" \notin Range(s.span.path) /\ s.span.path # <<>>
    IN  SelectSeq(AllSpans(file.body), Good)

TableSpans ==
    LET InTable(s) == s.span.bold /\ "table" \in Range(s.span.path)
    IN  SelectSeq(AllSpans(file.body), InTable)

\* C9 (ToC exclusion): under the DOM strategy the reported headings are
\* exactly the bold Item spans outside tables whose body-level anchor
\* resolves, one all_sections_found entry per such span and none for a span
\* with a table ancestor.
C9_TocExclusion ==
    (ParseReturned /\ strategy = "dom") =>
        /\ Len(all_sections_found) = Len(BodyLevelHeadingSpans)
        /\ Len(headings) = Len(BodyLevelHeadingSpans)
        /\ \A i \in 1..Len(headings) :
              /\ headings[i].element = BodyLevelHeadingSpans[i].block
              /\ headings[i].item_number = Lower(BodyLevelHeadingSpans[i].span.item)
              /\ all_sections_found[i]
                   = <<"Item", Upper(Lower(BodyLevelHeadingSpans[i].span.item)),
                       BodyLevelHeadingSpans[i].span.title>>

C9_Witness ==
    /\ ParseReturned /\ strategy = "dom"
    /\ Len(TableSpans) >= 2
    /\ Len(all_sections_found) = 1

\* the children of <body> that are Tags and lie strictly between two indices
TagsBetween(lo, hi) ==
    LET IsTag(j) == file.body[j].kind = "tag"
    IN  SelectSeq([j \in 1..Len(file.body) |-> j],
                  LAMBDA j : lo < j /\ j < hi /\ IsTag(j))

\* C10 (content slicing boundary): under the DOM strategy the content of an
\* extracted heading is exactly the Tag children of <body> strictly after its
\* anchor block and strictly before the anchor block of the next detected
\* heading (the end of the body for the last heading), and holds no block at
\* or after that next anchor.
C10_SliceBoundary ==
    (ParseReturned /\ strategy = "dom") =>
        \A i \in 1..Len(headings) :
            IsExtracted(headings[i], target_sections) =>
                LET next == IF i < Len(headings) THEN headings[i + 1].element
                            ELSE Len(file.body) + 1
                    between == TagsBetween(headings[i].element, next)
                IN  /\ extracted[i].html = between
                    /\ extracted[i].text
                         = SelectSeq([k \in 1..Len(between) |-> file.body[between[k]].text],
                                     LAMBDA t : t # "")
                    /\ \A k \in 1..Len(extracted[i].html) : extracted[i].html[k] < next


\* no heading shares its anchor block with the next one
DistinctAnchors ==
    \A i \in 1..(Len(headings) - 1) : headings[i].element # headings[i + 1].element

\* the same boundary where no heading shares its anchor block with the next one
C10_SliceBoundaryDistinctAnchors == DistinctAnchors => C10_SliceBoundary

\* parse_html has ended, by a return or by an exception
ParseEnded == ppc \in {"returned", "FileNotFoundError", "ParsingError"}

\* nothing of the file has been read or parsed
NothingParsed ==
    /\ metadata = NoMetadata
    /\ strategy = "none"
    /\ headings = <<>>
    /\ sections = <<>>
    /\ all_sections_found = <<>>

\* C11 (missing file): parse_html on a path that does not exist ends in
\* FileNotFoundError and in no other way, FileNotFoundError is raised for no
\* existing path, and it is raised as the first step, before the file is
\* read, its metadata extracted or any heading detection run.
C11_MissingFile ==
    /\ (ppc # "start" /\ ~file.exists) => ppc = "FileNotFoundError"
    /\ ppc = "FileNotFoundError" => (~file.exists /\ NothingParsed)

C11_Witness == ppc = "FileNotFoundError" /\ file = MissingFile

\* both detection strategies have run and neither found a heading
NoHeadingsDetected == strategy = "dom+fallback" /\ headings = <<>>

UnknownWarned == \E k \in 1..Len(order_warnings) : order_warnings[k][1] = "Unknown item number"

OutOfOrderWarned ==
    \E k \in 1..Len(order_warnings) : order_warnings[k][1] = "Out-of-order heading"

TargetPairs ==
    { <<"1", "ITEM_1">>, <<"1a", "ITEM_1A">>, <<"7", "ITEM_7">>, <<"7a", "ITEM_7A">>,
      <<"8", "ITEM_8">> }

\* heading i may be the origin of the sections entry e
Originates(i, e) ==
    /\ <<headings[i].item_number, e.section_type>> \in TargetPairs
    /\ headings[i].item_number \in Range(target_sections)
    /\ headings[i].title = e.title

\* C13 (target mapping): every key of sections is one of ITEM_1, ITEM_1A,
\* ITEM_7, ITEM_7A, ITEM_8, is held once, and comes from a detected heading
\* whose designator is in the configured target set; a heading with any other
\* designator has no content extracted and gives no entry, yet every detected
\* heading contributes its "Item X: Title" entry to all_sections_found.
C13_TargetMapping ==
    ParseReturned =>
        /\ \A j \in 1..Len(sections) :
              /\ sections[j].section_type \in {p[2] : p \in TargetPairs}
              /\ \E i \in 1..Len(headings) : Originates(i, sections[j])
              /\ \A k \in 1..Len(sections) :
                    sections[k].section_type = sections[j].section_type => k = j
        /\ \A i \in 1..Len(headings) :
              (\/ headings[i].item_number \notin Range(target_sections)
               \/ headings[i].item_number \notin {p[1] : p \in TargetPairs})
                  => extracted[i] = NoSlice
        /\ Len(all_sections_found) = Len(headings)
        /\ \A i \in 1..Len(headings) :
              all_sections_found[i] = <<"Item", Upper(headings[i].item_number), headings[i].title>>

\* a configured target without a section type (Item 9) and a heading outside
\* the target set (Item 1) are both listed, only Item 1A is extracted
C13_Witness ==
    /\ ParseReturned
    /\ target_sections = <<"1a", "9">>
    /\ {"1", "1a", "9"} \subseteq {headings[i].item_number : i \in 1..Len(headings)}
    /\ Len(all_sections_found) = 3
    /\ Len(sections) = 1 /\ sections[1].section_type = "ITEM_1A"

\* the headings the extraction loop takes for the section type key
Occurrences(key) ==
    {i \in 1..Len(headings) :
        /\ IsExtracted(headings[i], target_sections)
        /\ <<headings[i].item_number, key>> \in TargetPairs}

\* the cleaned text of the content extracted for heading i
CleanedOf(i) == CleanText(extracted[i].text, metadata.company_name, metadata.fiscal_year)

NonEmptyOccurrences(key) == {i \in Occurrences(key) : CleanedOf(i) # <<>>}

Latest(S) == CHOOSE i \in S : \A j \in S : j <= i

EntriesOf(key) == {j \in 1..Len(sections) : sections[j].section_type = key}

\* the sections entry j is the title and content of heading i
EntryIsOf(j, i) ==
    /\ sections[j].title = headings[i].title
    /\ sections[j].html_content = extracted[i].html
    /\ sections[j].text_content = CleanedOf(i)

SectionKeys == {p[2] : p \in TargetPairs}

\* C14 (duplicate headings), as stated: the sections entry of a designator
\* detected more than once is single and has the title and content of the
\* last occurrence of that designator in document order.  (Stated for the
\* designators that have an entry at all, in filings where no two
\* consecutive headings share an anchor block.)
C14_LastOccurrence ==
    (ParseReturned /\ DistinctAnchors) =>
        \A key \in SectionKeys :
            (Cardinality(Occurrences(key)) >= 2 /\ EntriesOf(key) # {}) =>
                /\ Cardinality(EntriesOf(key)) = 1
                /\ \A j \in EntriesOf(key) : EntryIsOf(j, Latest(Occurrences(key)))

\* C14, amended: a designator detected more than once has at most one
\* sections entry; the entry has the title and content of the last
\* occurrence whose cleaned text is not empty, and there is none when the
\* cleaned text of every occurrence is empty.
C14_LastNonEmptyOccurrence ==
    ParseReturned =>
        \A key \in SectionKeys :
            Cardinality(Occurrences(key)) >= 2 =>
                IF NonEmptyOccurrences(key) = {}
                THEN EntriesOf(key) = {}
                ELSE /\ Cardinality(EntriesOf(key)) = 1
                     /\ \A j \in EntriesOf(key) :
                           EntryIsOf(j, Latest(NonEmptyOccurrences(key)))

\* two occurrences of Item 1 with different titles, both with content: the
\* entry carries the later title
C14_Witness ==
    /\ ParseReturned
    /\ \E i1, i2 \in NonEmptyOccurrences("ITEM_1") :
          /\ i1 < i2
          /\ headings[i1].title # headings[i2].title
          /\ \A j \in EntriesOf("ITEM_1") : sections[j].title = headings[i2].title
    /\ Cardinality(EntriesOf("ITEM_1")) = 1

\* C15 (empty sections dropped): the cleaned text of every entry of a
\* returned filing holds a non-empty line; a designator none of whose target
\* headings has non-empty cleaned text has no entry, and a filing with such a
\* heading is returned all the same.
C15_EmptyDropped ==
    /\ ParseReturned =>
          /\ \A j \in 1..Len(sections) :
                /\ sections[j].text_content # <<>>
                /\ \E k \in 1..Len(sections[j].text_content) :
                      sections[j].text_content[k] # ""
          /\ \A key \in SectionKeys :
                NonEmptyOccurrences(key) = {} => EntriesOf(key) = {}
    /\ (ParseEnded /\ headings # <<>>) => ParseReturned

\* a target heading whose content is a page number only: cleaned to nothing,
\* no entry, the filing is returned
C15_Witness ==
    /\ ParseReturned
    /\ \E i \in Occurrences("ITEM_1A") :
          /\ extracted[i].text # <<>>
          /\ CleanedOf(i) = <<>>
    /\ EntriesOf("ITEM_1A") = {}

----------------------------------------------------------------------------
\* Claims about FilingParser._clean_text

CleanReturned == kpc = "returned"

\* the pattern occurs somewhere in txt
Occurs(pat, txt) == \E p \in 0..Len(txt) : MatchFrom(pat, 1, txt, p, FALSE) >= 0

\* str.split("\n")
RECURSIVE SplitLines(_)
SplitLines(txt) ==
    IF \E i \in 1..Len(txt) : txt[i] = "\n"
    THEN LET i == CHOOSE i \in 1..Len(txt) :
                     txt[i] = "\n" /\ \A j \in 1..(i - 1) : txt[j] # "\n"
         IN  <<SubSeq(txt, 1, i - 1)>> \o SplitLines(SubSeq(txt, i + 1, Len(txt)))
    ELSE <<txt>>

\* the symbols of a line that are not whitespace
Solid(line) == SelectSeq(line, LAMBDA v : v \notin Whitespace)

\* a line of digits only, surrounding whitespace ignored
IsPageNumberLine(line) ==
    /\ StripWhitespace(line) # <<>>
    /\ \A i \in 1..Len(StripWhitespace(line)) : StripWhitespace(line)[i] \in DigitSymbols

\* a line that reads "Table of Contents" in any case
IsTocLine(line) ==
    [i \in 1..Len(Solid(line)) |-> CaseFold(Solid(line)[i])] = <<"table", "of", "contents">>

HasLine(txt, Test(_)) == \E i \in 1..Len(SplitLines(txt)) : Test(SplitLines(txt)[i])

\* C16 (footer removal): with a non-empty company name and a non-zero fiscal
\* year the cleaned text holds no occurrence of the footer pattern
\* "<company> | <year> Form 10-K | <digits>".
C16_FooterRemoved ==
    (CleanReturned /\ cname # "" /\ cyear # 0) =>
        ~Occurs(FooterPattern(cname, cyear), cleaned)

\* C17 (page-number and ToC lines): no line of the cleaned text consists of
\* digits only (surrounding whitespace ignored) and none reads "Table of
\* Contents" in any case, also where the line takes that form only once the
\* footer pass or the non-breaking-space pass has run.
C17_NoPageNumberOrTocLine ==
    CleanReturned =>
        /\ ~HasLine(cleaned, IsPageNumberLine)
        /\ ~HasLine(cleaned, IsTocLine)

\* no line of the input is a page number, but the footer pass leaves one
C17_Witness ==
    /\ CleanReturned
    /\ cname # "" /\ cyear # 0
    /\ ~HasLine(raw, IsPageNumberLine)
    /\ HasLine(RemoveFooters(raw, cname, cyear), IsPageNumberLine)

\* C18 (whitespace normalisation), first part: the cleaned text holds no run
\* of three or more consecutive newlines.
C18_NoThreeNewlines ==
    CleanReturned =>
        ~\E p \in 1..(Len(cleaned) - 2) :
            cleaned[p] = "\n" /\ cleaned[p + 1] = "\n" /\ cleaned[p + 2] = "\n"

\* C18, second part: no line of the cleaned text ends in a space or a tab
C18_NoTrailingBlanks ==
    CleanReturned =>
        ~HasLine(cleaned, LAMBDA line : line # <<>> /\ line[Len(line)] \in {" ", "\t"})

----------------------------------------------------------------------------
\* Claims about the IngestionService

\* the re-indexing loop has run
Reindexed == ipc \in {"embed", "mark", "commit", "returned"}

\* the place of a section type in parsed.sections
SectionPlace(key) == CHOOSE j \in 1..Len(parsed) : parsed[j].section_type = key

\* the content_raw of the chunks of one section, in list order
RawOf(key) ==
    LET OfKey(c) == c.section = key
        cs == SelectSeq(all_chunks, OfKey)
    IN  [i \in 1..Len(cs) |-> cs[i].content_raw]

\* C19 (global re-indexing): after the re-indexing all_chunks holds M >= 1
\* chunks; the chunk at list place i (from 0) has chunk_index i, metadata
\* chunk_index i and metadata total_chunks M; the chunks follow the order of
\* the sections map, those of one section are contiguous and are its token
\* windows in window order.
C19_GlobalReindex ==
    Reindexed =>
        LET M == Len(all_chunks)
        IN  /\ M >= 1
            /\ \A i \in 1..M :
                  /\ all_chunks[i].chunk_index = i - 1
                  /\ all_chunks[i].metadata.chunk_index = i - 1
                  /\ all_chunks[i].metadata.total_chunks = M
            /\ \A i, j \in 1..M :
                  i < j => SectionPlace(all_chunks[i].section) <= SectionPlace(all_chunks[j].section)
            /\ \A k \in 1..Len(parsed) :
                  RawOf(parsed[k].section_type)
                      = SplitTokens(parsed[k].text_content, icfg.size, icfg.overlap)

\* two sections of several chunks each
C19_Witness ==
    /\ ipc = "returned"
    /\ Len(parsed) = 2
    /\ \A k \in 1..2 : Len(RawOf(parsed[k].section_type)) >= 2
    /\ Len(all_chunks) >= 6

\* the committed rows a request is a duplicate of
DuplicatesOf(r) ==
    {d \in db : StrUpper(d.ticker) = StrUpper(r.ticker) /\ d.fiscal_year = r.fiscal_year}

\* C20 (duplicate short-circuit): a call for a ticker (in any case) and a
\* fiscal year that a committed Document has ends in DuplicateDocumentError
\* carrying that Document, having made no EDGAR request, download, parse,
\* chunking, embedding, insert or commit; and no other call ends so.
C20_DuplicateShortCircuit ==
    /\ (ipc \notin {"check", "returned"} /\ DuplicatesOf(req) # {})
            => ipc = "DuplicateDocumentError"
    /\ ipc = "DuplicateDocumentError" =>
          /\ existing \in DuplicatesOf(req)
          /\ effects = <<>>
          /\ filing = NoFiling /\ parsed = <<>> /\ document = NoDocument /\ all_chunks = <<>>

\* the request is written in lower case, the row in upper case
C20_Witness ==
    /\ ipc = "DuplicateDocumentError"
    /\ req.ticker = <<"a", "a", "p", "l">>
    /\ existing.ticker = <<"A", "A", "P", "L">>
    /\ Cardinality(db) >= 2

----------------------------------------------------------------------------
\* EdgarClient._request_with_retry: one call at a time is followed; the other
\* requests of the same client take and return permits of the semaphore

InitEdgar ==
    /\ ChunkerIdle
    /\ ParserIdle
    /\ CleanerIdle
    /\ IngestIdle
    /\ WalkIdle
    /\ RaceIdle
    /\ epc = "acquire"
    /\ max_concurrent \in 1..MaxConcurrent
    /\ sem = max_concurrent
    /\ others = 0
    /\ attempt = 1
    /\ gets = <<>>
    /\ last_exception = ""
    /\ response = NoResponse
    /\ wait = 0

\* async with self._semaphore: (entry)
Acquire ==
    /\ epc = "acquire"
    /\ sem > 0
    /\ sem' = sem - 1
    /\ epc' = "get"
    /\ UNCHANGED <<max_concurrent, others, attempt, gets, last_exception, response, wait>>
    /\ UNCHANGED besideEdgar

\* response = await self._client.get(url) and the branches on its outcome;
\* a return or a raise leaves the async with block and frees the permit
Get(outcome) ==
    /\ epc = "get"
    /\ gets' = Append(gets, outcome)
    /\ IF outcome.exc = "" /\ outcome.status = 200
       THEN /\ epc' = "returned"
            /\ response' = outcome
            /\ sem' = sem + 1
            /\ UNCHANGED <<last_exception, wait>>
       ELSE IF Retried(outcome)
            THEN /\ epc' = "sleep"
                 /\ wait' = Backoff(attempt)
                 /\ last_exception' = IF outcome.exc # "" THEN outcome.exc
                                      ELSE last_exception
                 /\ UNCHANGED <<response, sem>>
            ELSE /\ epc' = "EdgarClientError"
                 /\ sem' = sem + 1
                 /\ UNCHANGED <<response, last_exception, wait>>
    /\ UNCHANGED <<max_concurrent, others, attempt>>
    /\ UNCHANGED besideEdgar

\* await asyncio.sleep(wait) inside the async with block, then the next
\* turn of the for loop, or the raise after the loop
Sleep ==
    /\ epc = "sleep"
    /\ sem' = sem + 1
    /\ IF attempt < MAX_RETRIES
       THEN attempt' = attempt + 1 /\ epc' = "acquire"
       ELSE UNCHANGED attempt /\ epc' = "EdgarClientError"
    /\ UNCHANGED <<max_concurrent, others, gets, last_exception, response, wait>>
    /\ UNCHANGED besideEdgar

\* another request of the client enters its async with block
OtherAcquire ==
    /\ epc # "idle"
    /\ sem > 0
    /\ sem' = sem - 1
    /\ others' = others + 1
    /\ UNCHANGED <<epc, max_concurrent, attempt, gets, last_exception, response, wait>>
    /\ UNCHANGED besideEdgar

\* another request of the client leaves its async with block
OtherRelease ==
    /\ others > 0
    /\ sem' = sem + 1
    /\ others' = others - 1
    /\ UNCHANGED <<epc, max_concurrent, attempt, gets, last_exception, response, wait>>
    /\ UNCHANGED besideEdgar

\* the call has ended; the next call of _request_with_retry
NextRequest ==
    /\ EdgarEnded
    /\ epc' = "acquire"
    /\ attempt' = 1
    /\ gets' = <<>>
    /\ last_exception' = ""
    /\ response' = NoResponse
    /\ wait' = 0
    /\ UNCHANGED <<max_concurrent, sem, others>>
    /\ UNCHANGED besideEdgar

NextEdgar ==
    \/ Acquire
    \/ \E outcome \in GetOutcomes : Get(outcome)
    \/ Sleep
    \/ OtherAcquire
    \/ OtherRelease
    \/ NextRequest

SpecEdgar == InitEdgar /\ [][NextEdgar]_vars

\* every get ends (the client has a 30 s timeout), every sleep ends, every
\* other request leaves its block, and asyncio.Semaphore wakes its waiters
\* in the order they came, so a waiting call is not passed over for ever
SpecEdgarFair ==
    /\ SpecEdgar
    /\ SF_vars(Acquire)
    /\ WF_vars(\E outcome \in GetOutcomes : Get(outcome))
    /\ WF_vars(Sleep)
    /\ WF_vars(OtherRelease)

\* the calls that store or publish the result of a run
StoreCalls == { "embed", "insert chunks", "update processed", "commit" }

NoStoreCalls == \A k \in 1..Len(effects) : effects[k] \notin StoreCalls

\* parse_html raised in this run
ParseFailed == cause \in { "FileNotFoundError", "ParsingError" }

\* the chunking loop of this run has ended and produced nothing
NothingChunked ==
    /\ document # NoDocument
    /\ ipc \notin { "chunk", "SQLAlchemyError" }
    /\ ChunkAll(parsed, filing, req.fiscal_year, icfg) = <<>>

C21_Witness ==
    /\ ipc = "IngestionError"
    /\ cause = "ParsingError"
    /\ effects # <<>>
    /\ effects[Len(effects)] = "parse"

Transient(outcome) ==
    \/ outcome.exc \in { "TimeoutException", "RequestError" }
    \/ outcome.exc = "" /\ (outcome.status = 429 \/ outcome.status \in 500..599)

IsOk(outcome) == outcome.exc = "" /\ outcome.status = 200

\* the get just issued has been answered and its branch has been taken
C22_Protocol ==
    /\ Len(gets) <= 3
    /\ \A k \in 1..(Len(gets) - 1) : Transient(gets[k])
    /\ epc = "returned" <=> (gets # <<>> /\ IsOk(gets[Len(gets)]))
    /\ epc = "returned" => response = gets[Len(gets)]
    /\ (gets # <<>> /\ ~IsOk(gets[Len(gets)]) /\ ~Transient(gets[Len(gets)]))
           => epc = "EdgarClientError"
    /\ (Len(gets) = 3 /\ Transient(gets[3])) => epc \in { "sleep", "EdgarClientError" }
    /\ epc = "EdgarClientError" =>
           \/ ~Transient(gets[Len(gets)])
           \/ Len(gets) = 3

\* C22: one call of _request_with_retry terminates and issues at most 3
\* GETs; it returns the first response with status 200; it tries again only
\* after a timeout, a request error, a 429 or a 5xx; a 404 or another status
\* raises EdgarClientError without another GET; three failed attempts raise
\* EdgarClientError
C22_RetryProtocol ==
    /\ []C22_Protocol
    /\ (epc = "acquire" /\ attempt = 1) ~> EdgarEnded
    /\ (Len(gets) = 3 /\ Transient(gets[3])) ~> (epc = "EdgarClientError")

\* three transient failures of different kinds, then the raise behind the loop
C22_Witness ==
    /\ epc = "EdgarClientError"
    /\ Len(gets) = 3
    /\ gets[1] = Raised("TimeoutException")
    /\ gets[2] = Status(429)
    /\ gets[3] = Status(503)
    /\ last_exception = "TimeoutException"
    /\ wait = 4

\* a 200 on the third attempt, and a 404 that ends the call at once
C22_WitnessReturned ==
    /\ epc = "returned"
    /\ Len(gets) = 3

C22_WitnessNotFound ==
    /\ epc = "EdgarClientError"
    /\ gets = <<Status(404)>>

\* metadata["page_approx"] of the returned chunk at 0-based index i
PageApprox(i) == chunks[i + 1].metadata.page_approx

\* max(1, ceil(n / 4)) for the n returned chunks
LastPage == Max(1, (Len(chunks) + 3) \div 4)

\* C23: in the list of n chunks a chunk_section call returns, the chunk at
\* index i has page_approx = min(ceil((i+1)/4), max(1, ceil(n/4))); so the
\* first chunk is on page 1, the page never decreases along the list, grows
\* by at most 1 from one chunk to the next, and never exceeds max(1, ceil(n/4))
C23_PageApprox ==
    Returned =>
        /\ \A i \in 0..(Len(chunks) - 1) :
              /\ PageApprox(i) = Min((i + 1 + 3) \div 4, LastPage)
              /\ PageApprox(i) <= LastPage
        /\ chunks # <<>> => PageApprox(0) = 1
        /\ \A i \in 0..(Len(chunks) - 2) :
              /\ PageApprox(i) <= PageApprox(i + 1)
              /\ PageApprox(i + 1) <= PageApprox(i) + 1

\* five chunks: the fifth opens page 2
C23_Witness ==
    /\ Returned
    /\ Len(chunks) = 5
    /\ PageApprox(3) = 1
    /\ PageApprox(4) = 2

\* ceil(a / b) for b > 0
Ceil(a, b) == IF a <= 0 THEN 0 - ((0 - a) \div b) ELSE (a + b - 1) \div b

\* C24: for an input of totalTokens > targetChunkSize tokens and
\* stride = targetChunkSize - overlap with 0 <= overlap < targetChunkSize, the
\* loop emits 1 + ceil((totalTokens - targetChunkSize) / stride) windows, and
\* never more than ceil(totalTokens / stride)
C24_WindowCount ==
    (Returned /\ NonBlank /\ ValidOverlap /\ TotalTokens > chunk_size) =>
        LET stride == chunk_size - chunk_overlap
        IN  /\ Len(windows) = 1 + Ceil(TotalTokens - chunk_size, stride)
            /\ Len(windows) <= Ceil(TotalTokens, stride)
            /\ Len(chunks) = Len(windows)

\* 5 tokens, windows of 3 with overlap 1: the second window is cut short,
\* 1 + ceil(2 / 2) = 2 windows against the bound ceil(5 / 2) = 3
C24_Witness ==
    /\ Returned
    /\ TotalTokens = 5
    /\ chunk_size = 3
    /\ chunk_overlap = 1
    /\ Len(windows) = 2

\* the stride does not divide the rest: 5 tokens, windows of 2 with
\* overlap 0 give 1 + ceil(3 / 2) = 3 windows, which is the bound ceil(5 / 2)
C24_WitnessBound ==
    /\ Returned
    /\ TotalTokens = 5
    /\ chunk_size = 2
    /\ chunk_overlap = 0
    /\ Len(windows) = 3

\* the constructor accepted the pair (chunk_size, chunk_overlap)
Accepted == cpc \in { "ready", "returned" }

Stride == chunk_size - chunk_overlap

\* consecutive windows: the next one starts later, and not behind the end
\* of the one before
WindowsAdvance == \A k \in 1..(Len(windows) - 1) : windows[k + 1][1] > windows[k][1]

WindowsLeaveNoGap == \A k \in 1..(Len(windows) - 1) : windows[k + 1][1] <= windows[k][2]

WindowsNonEmpty == \A k \in 1..Len(windows) : WinLen(windows[k]) >= 1

\* C28: every pair (chunk_size, chunk_overlap) the constructor accepts has
\* 1 <= chunk_size - chunk_overlap <= chunk_size, so that the sliding
\* window advances, leaves no gap between consecutive windows and emits
\* only non-empty token windows (stated here for the positive chunk sizes,
\* where the accepted pairs outside the range are those of a negative overlap)
C28_AcceptedStride ==
    (Accepted /\ chunk_size >= 1) =>
        /\ 1 <= Stride /\ Stride <= chunk_size
        /\ (Returned /\ NonBlank) =>
               WindowsAdvance /\ WindowsLeaveNoGap /\ WindowsNonEmpty

\* the consequences alone: no gap and no empty window for an accepted pair
C28_NoGapNoEmptyWindow ==
    (Returned /\ NonBlank /\ chunk_size >= 1) => WindowsLeaveNoGap /\ WindowsNonEmpty

\* a chunk size below 1 is accepted too and gives windows without a token
C28_NoEmptyWindow ==
    (Returned /\ NonBlank) => WindowsNonEmpty

\* what the code does guarantee: the window advances for every accepted
\* pair, and the rest holds for the pairs with 0 <= overlap < chunk_size
C28_ValidOverlapStride ==
    /\ Accepted => Stride >= 1
    /\ (Returned /\ NonBlank) => WindowsAdvance
    /\ (Accepted /\ ValidOverlap) =>
           /\ Stride <= chunk_size
           /\ (Returned /\ NonBlank) => WindowsLeaveNoGap /\ WindowsNonEmpty

----------------------------------------------------------------------------
\* FilingParser._find_body_child, one turn of its while loop per step

\* the tags that can lie below <body>
InnerTags == { "div", "table", "td" }

\* what lies above the inner tags of an element: the body of the document,
\* its head, the html element, the document, or nothing when the element
\* sits in a tree that was taken out of the document
Tops ==
    { <<"body", "html", "[document]">>,
      <<"head", "html", "[document]">>,
      <<"html", "[document]">>,
      <<"[document]">>,
      <<>> }

\* the element passed to the walk with its ancestors, nearest first
Chains == { inner \o top : inner \in SeqsUpTo(InnerTags, MaxDepth), top \in Tops } \ { <<>> }

\* mutant: the element itself is compared with body as well
ParentIsBodyOrSelf(c, k) ==
    \/ c[k] = "body"
    \/ k + 1 <= Len(c) /\ c[k + 1] = "body"

\* current.parent == body
ParentIsBody(c, k) == k + 1 <= Len(c) /\ c[k + 1] = "body"

InitWalk ==
    /\ ChunkerIdle
    /\ ParserIdle
    /\ CleanerIdle
    /\ IngestIdle
    /\ EdgarIdle
    /\ RaceIdle
    /\ wpc = "walk"
    /\ ancestry \in Chains
    /\ current = 1
    /\ body_div = None

\* the loop test fails: return current
WalkFound ==
    /\ wpc = "walk"
    /\ ParentIsBody(ancestry, current)
    /\ body_div' = current
    /\ wpc' = "returned"
    /\ UNCHANGED <<ancestry, current>>
    /\ UNCHANGED besideWalk

\* current = current.parent, and the walk goes on
WalkStep ==
    /\ wpc = "walk"
    /\ ~ParentIsBody(ancestry, current)
    /\ current + 1 <= Len(ancestry)
    /\ ancestry[current + 1] # "[document]"
    /\ current' = current + 1
    /\ UNCHANGED <<wpc, ancestry, body_div>>
    /\ UNCHANGED besideWalk

\* current = current.parent is None or the document: return None
WalkOff ==
    /\ wpc = "walk"
    /\ ~ParentIsBody(ancestry, current)
    /\ IF current + 1 > Len(ancestry) THEN TRUE ELSE ancestry[current + 1] = "[document]"
    /\ current' = IF current + 1 > Len(ancestry) THEN 0 ELSE current + 1
    /\ body_div' = None
    /\ wpc' = "returned"
    /\ UNCHANGED ancestry
    /\ UNCHANGED besideWalk

\* the next call, for another element
NextCall(c) ==
    /\ wpc = "returned"
    /\ wpc' = "walk"
    /\ ancestry' = c
    /\ current' = 1
    /\ body_div' = None
    /\ UNCHANGED besideWalk

NextWalk ==
    \/ WalkFound
    \/ WalkStep
    \/ WalkOff
    \/ \E c \in Chains : NextCall(c)

SpecWalk == InitWalk /\ [][NextWalk]_vars

\* the loop is straight-line code: a turn that can be taken is taken
SpecWalkFair ==
    /\ SpecWalk
    /\ WF_vars(WalkFound)
    /\ WF_vars(WalkStep)
    /\ WF_vars(WalkOff)

\* the ancestors-or-self of the element that are direct children of <body>
BodyChildren(c) == { k \in 1..Len(c) : k + 1 <= Len(c) /\ c[k + 1] = "body" }

\* the walk has returned what the specification asks for
C27_Anchor ==
    /\ Cardinality(BodyChildren(ancestry)) <= 1
    /\ wpc = "returned" =>
           /\ body_div = FindBodyChild(ancestry)
           /\ BodyChildren(ancestry) # {} => body_div \in BodyChildren(ancestry)
           /\ BodyChildren(ancestry) = {} => body_div = None

\* C27: for every element of an acyclic document tree the walk to the
\* body-level ancestor terminates; it returns the one ancestor-or-self that
\* is a direct child of <body> when there is one, and no anchor when the walk
\* reaches the root without finding one (the body itself, an element outside
\* the body)
C27_WalkTerminates ==
    /\ []C27_Anchor
    /\ (wpc = "walk") ~> (wpc = "returned")

\* a span three tags deep in a body child: the walk climbs to the child
C27_Witness ==
    /\ wpc = "returned"
    /\ ancestry = <<"td", "table", "div", "body", "html", "[document]">>
    /\ body_div = 3

\* the walk started at <body> itself ends at the document without an anchor
C27_WitnessBody ==
    /\ wpc = "returned"
    /\ ancestry = <<"body", "html", "[document]">>
    /\ body_div = None

\* an element of the head has no anchor either
C27_WitnessOutside ==
    /\ wpc = "returned"
    /\ ancestry = <<"div", "head", "html", "[document]">>
    /\ body_div = None

\* a heading of the DOM strategy is anchored at a child of <body>, one of
\* the text fallback at <body> itself
FromDom(h) == h.element # 0

\* the detection of this call is over
Detected == ppc \in { "extract", "returned" }

C25_OneStrategy ==
    /\ strategy = "dom+fallback" =>
           /\ FindSectionHeadings(file) = <<>>
           /\ \A i \in 1..Len(headings) : ~FromDom(headings[i])
    /\ strategy = "dom" => \A i \in 1..Len(headings) : FromDom(headings[i])
    /\ (Detected /\ FindSectionHeadings(file) # <<>>) =>
           strategy = "dom" /\ headings = FindSectionHeadings(file)
    /\ (Detected /\ strategy = "dom+fallback") => headings = FindHeadingsFallback(file)

\* C25: within one parse_html call the text fallback runs only if the DOM
\* strategy returned no heading; the heading list used downstream comes from
\* one strategy alone, never from both, and when the DOM strategy finds a
\* heading the fallback is not run
C25_FallbackGate ==
    /\ []C25_OneStrategy
    /\ [][(strategy # "dom+fallback" /\ strategy' = "dom+fallback")
              => (strategy = "dom" /\ headings = <<>>)]_vars
    /\ [][(strategy = "dom" /\ headings # <<>>) => strategy' = "dom"]_vars

\* a filing whose only heading is not bold: the DOM strategy finds nothing,
\* the fallback finds the heading, and the call returns with it
C25_Witness ==
    /\ ppc = "returned"
    /\ strategy = "dom+fallback"
    /\ headings # <<>>

\* the DOM strategy found headings and the call returned without the fallback
C25_WitnessDom ==
    /\ ppc = "returned"
    /\ strategy = "dom"
    /\ Len(headings) >= 2

\* C26: under either detection strategy the heading list handed to the
\* order validation and to the content slicing is sorted ascending by
\* document position, and all_sections_found has one entry per detected
\* heading, in that same order
C26_SortedHeadings ==
    /\ Detected =>
           \A i \in 1..Len(headings), j \in 1..Len(headings) :
               i < j => headings[i].position <= headings[j].position
    /\ ppc = "returned" =>
           /\ Len(all_sections_found) = Len(headings)
           /\ \A i \in 1..Len(headings) :
                  all_sections_found[i]
                      = <<"Item", Upper(headings[i].item_number), headings[i].title>>

\* three DOM headings at three different children of <body>
C26_Witness ==
    /\ ppc = "returned"
    /\ strategy = "dom"
    /\ Len(headings) = 3
    /\ headings[1].position < headings[2].position
    /\ headings[2].position < headings[3].position
    /\ headings[1].item_number # headings[2].item_number

\* two fallback headings, numbered in the order of their matches
C26_WitnessFallback ==
    /\ ppc = "returned"
    /\ strategy = "dom+fallback"
    /\ Len(headings) >= 2
    /\ Len(all_sections_found) >= 2

\* the place of a position of ingest in the order of its steps; a raised
\* exception stands behind all of them
StepRank(p) ==
    CASE p = "check" -> 1
      [] p = "fetch" -> 2
      [] p = "parse" -> 3
      [] p = "create" -> 4
      [] p = "chunk" -> 5
      [] p = "embed" -> 6
      [] p = "mark" -> 7
      [] p = "commit" -> 8
      [] p = "returned" -> 9
      [] OTHER -> 10

\* the place of an outside call in the order of the steps
CallRank(e) ==
    CASE e \in { "edgar", "download" } -> 2
      [] e = "parse" -> 3
      [] e = "insert document" -> 4
      [] e = "chunk" -> 5
      [] e \in { "embed", "insert chunks" } -> 6
      [] e = "update processed" -> 7
      [] e = "commit" -> 8

Calls(e) == { k \in 1..Len(effects) : effects[k] = e }

C29_CallOrder ==
    /\ \A j \in 1..Len(effects), k \in 1..Len(effects) :
           j < k => CallRank(effects[j]) <= CallRank(effects[k])
    /\ \A e \in { "download", "parse", "insert document", "embed", "insert chunks",
                   "update processed", "commit" } : Cardinality(Calls(e)) <= 1
    /\ Cardinality(Calls("chunk")) <= Len(parsed)
    /\ StepRank(ipc) \in 6..9 =>
           /\ Cardinality(Calls("chunk")) = Len(parsed)
           /\ all_chunks = Reindex(ChunkAll(parsed, filing, req.fiscal_year, icfg))
    /\ Calls("commit") # {} =>
           /\ effects[Len(effects)] = "commit"
           /\ Calls("insert chunks") # {}
           /\ Calls("update processed") # {}
           /\ document.processed
           /\ all_chunks # <<>>
           /\ ipc \in { "returned", "SQLAlchemyError" }
    /\ ipc = "returned" => document \in db /\ Calls("commit") # {}
    /\ \A d \in db : d.processed

\* C29: within one ingest call the steps run in the order duplicate check,
\* EDGAR fetch and download, parse, create document, chunk, re-index,
\* embed-and-store, mark processed, commit, each at most once (chunk_section
\* once per parsed section); the commit is the last step and runs only after
\* embed_and_store and update_processed succeeded, so a committed document
\* has processed = true and at least one stored chunk
C29_StepOrder ==
    /\ []C29_CallOrder
    /\ [][(ipc' # ipc /\ ~IngestEnded) =>
              (StepRank(ipc') = StepRank(ipc) + 1 \/ StepRank(ipc') = 10)]_vars
    /\ [][db' # db =>
              /\ ipc = "commit" /\ ipc' = "returned"
              /\ db' = db \cup {document}
              /\ document.processed
              /\ all_chunks # <<>>
              /\ Calls("insert chunks") # {}]_vars

\* a second document committed after a run over two sections
C29_Witness ==
    /\ ipc = "returned"
    /\ Cardinality(db) = 2
    /\ Cardinality(Calls("chunk")) = 2
    /\ effects[Len(effects)] = "commit"
    /\ effects[Len(effects) - 1] = "update processed"

\* a commit that failed: nothing is added to the committed rows
C29_WitnessCommitFailed ==
    /\ ipc = "SQLAlchemyError"
    /\ Calls("commit") # {}
    /\ document \notin db

----------------------------------------------------------------------------
\* Concurrent calls of IngestionService.ingest: every request has a session
\* of its own (get_db), the sessions share the documents table

Sessions == 1..MaxSessions

RaceRequests ==
    { Request(<<"A", "A", "P", "L">>, 2024), Request(<<"a", "a", "p", "l">>, 2024),
      Request(<<"M", "S", "F", "T">>, 2024) }

\* get_10k_filings: the 10-K filings EDGAR lists for a company, most recent
\* first; resolve_cik compares the tickers in upper case
Listing(ticker) ==
    IF StrUpper(ticker) = <<"A", "A", "P", "L">>
    THEN << [accession_number |-> "0000320193-24-000123", fiscal_year |-> 2024],
            [accession_number |-> "0000320193-24-000006", fiscal_year |-> 2024],
            [accession_number |-> "0000320193-23-000106", fiscal_year |-> 2023] >>
    ELSE << [accession_number |-> "0000789019-24-000087", fiscal_year |-> 2024] >>

\* _fetch_and_download: the first listed filing of the requested fiscal year
MatchedFiling(r) ==
    LET filings == Listing(r.ticker)
        k == CHOOSE i \in 1..Len(filings) :
                 /\ filings[i].fiscal_year = r.fiscal_year
                 /\ \A j \in 1..(i - 1) : filings[j].fiscal_year # r.fiscal_year
    IN  filings[k]

NoRow ==
    [id |-> 0, ticker |-> <<>>, fiscal_year |-> 0, accession_no |-> "", processed |-> FALSE]

\* Document(ticker=ticker.upper(), fiscal_year=fiscal_year,
\*          accession_no=filing.accession_number, processed=False); the
\* primary key is a fresh uuid4, here the number of the session
NewRow(id, r, accession_number) ==
    [ id |-> id, ticker |-> StrUpper(r.ticker), fiscal_year |-> r.fiscal_year,
      accession_no |-> accession_number, processed |-> FALSE ]

\* mutant: a documents table without the unique index on accession_no
UniqueViolationNever(rows, accession_no) == FALSE

\* accession_no is unique: the INSERT of a value a committed row has fails
UniqueViolation(rows, accession_no) == \E d \in rows : d.accession_no = accession_no

\* the INSERT waits while another open transaction holds a row of that value
InsertWaits(s, accession_no) ==
    \E t \in Sessions \ {s} : pending[t] # NoRow /\ pending[t].accession_no = accession_no

\* an exception leaves ingest; the session is closed and rolled back
Raise(s, exception) ==
    /\ rpc' = [rpc EXCEPT ![s] = exception]
    /\ pending' = [pending EXCEPT ![s] = NoRow]

InitRace ==
    /\ ChunkerIdle
    /\ ParserIdle
    /\ CleanerIdle
    /\ IngestIdle
    /\ EdgarIdle
    /\ WalkIdle
    /\ rpc = [s \in Sessions |-> "check"]
    /\ rreq \in [Sessions -> RaceRequests]
    /\ matched = [s \in Sessions |-> ""]
    /\ pending = [s \in Sessions |-> NoRow]
    /\ documents = {}

\* 1. the duplicate check reads the committed rows
RaceDuplicateCheck(s) ==
    /\ rpc[s] = "check"
    /\ LET rows == GetByTickerAndYear(documents, rreq[s].ticker, rreq[s].fiscal_year)
       IN  rpc' = [rpc EXCEPT ![s] =
                      IF rows = {} THEN "fetch"
                      ELSE IF Cardinality(rows) = 1 THEN "DuplicateDocumentError"
                      ELSE "MultipleResultsFound"]
    /\ UNCHANGED <<rreq, matched, pending, documents>>
    /\ UNCHANGED besideRace

\* 2-4. _fetch_and_download
RaceFetch(s, ok) ==
    /\ rpc[s] = "fetch"
    /\ IF ok
       THEN /\ rpc' = [rpc EXCEPT ![s] = "parse"]
            /\ matched' = [matched EXCEPT ![s] = MatchedFiling(rreq[s]).accession_number]
            /\ UNCHANGED pending
       ELSE Raise(s, "EdgarClientError") /\ UNCHANGED matched
    /\ UNCHANGED <<rreq, documents>>
    /\ UNCHANGED besideRace

\* 5. parse_html
RaceParse(s, ok) ==
    /\ rpc[s] = "parse"
    /\ IF ok
       THEN rpc' = [rpc EXCEPT ![s] = "create"] /\ UNCHANGED pending
       ELSE Raise(s, "IngestionError")
    /\ UNCHANGED <<rreq, matched, documents>>
    /\ UNCHANGED besideRace

\* 4b. doc_repo.create: session.add and flush, i.e. the INSERT
RaceCreate(s) ==
    /\ rpc[s] = "create"
    /\ ~InsertWaits(s, matched[s])
    /\ IF UniqueViolation(documents, matched[s])
       THEN Raise(s, "IntegrityError")
       ELSE /\ rpc' = [rpc EXCEPT ![s] = "chunk"]
            /\ pending' = [pending EXCEPT ![s] = NewRow(s, rreq[s], matched[s])]
    /\ UNCHANGED <<rreq, matched, documents>>
    /\ UNCHANGED besideRace

\* 6. chunking and re-indexing; no chunk raises IngestionError
RaceChunk(s, ok) ==
    /\ rpc[s] = "chunk"
    /\ IF ok
       THEN rpc' = [rpc EXCEPT ![s] = "embed"] /\ UNCHANGED pending
       ELSE Raise(s, "IngestionError")
    /\ UNCHANGED <<rreq, matched, documents>>
    /\ UNCHANGED besideRace

\* 7. embed_and_store
RaceEmbed(s, ok) ==
    /\ rpc[s] = "embed"
    /\ IF ok
       THEN rpc' = [rpc EXCEPT ![s] = "mark"] /\ UNCHANGED pending
       ELSE Raise(s, "SQLAlchemyError")
    /\ UNCHANGED <<rreq, matched, documents>>
    /\ UNCHANGED besideRace

\* 8. update_processed
RaceMark(s, ok) ==
    /\ rpc[s] = "mark"
    /\ IF ok
       THEN /\ rpc' = [rpc EXCEPT ![s] = "commit"]
            /\ pending' = [pending EXCEPT ![s].processed = TRUE]
       ELSE Raise(s, "SQLAlchemyError")
    /\ UNCHANGED <<rreq, matched, documents>>
    /\ UNCHANGED besideRace

\* session.commit()
RaceCommit(s, ok) ==
    /\ rpc[s] = "commit"
    /\ IF ok
       THEN /\ rpc' = [rpc EXCEPT ![s] = "returned"]
            /\ documents' = documents \cup {pending[s]}
            /\ pending' = [pending EXCEPT ![s] = NoRow]
       ELSE Raise(s, "SQLAlchemyError") /\ UNCHANGED documents
    /\ UNCHANGED <<rreq, matched>>
    /\ UNCHANGED besideRace

NextRace ==
    \E s \in Sessions :
        \/ RaceDuplicateCheck(s)
        \/ \E ok \in BOOLEAN : RaceFetch(s, ok)
        \/ \E ok \in BOOLEAN : RaceParse(s, ok)
        \/ RaceCreate(s)
        \/ \E ok \in BOOLEAN : RaceChunk(s, ok)
        \/ \E ok \in BOOLEAN : RaceEmbed(s, ok)
        \/ \E ok \in BOOLEAN : RaceMark(s, ok)
        \/ \E ok \in BOOLEAN : RaceCommit(s, ok)

SpecRace == InitRace /\ [][NextRace]_vars

\* the committed documents of a ticker (in any case) and a fiscal year
CommittedFor(r) ==
    { d \in documents : StrUpper(d.ticker) = StrUpper(r.ticker)
                           /\ d.fiscal_year = r.fiscal_year }

\* C30: under any interleaving of concurrent ingest calls for the same
\* ticker and fiscal year, each with its own session, at most one Document
\* of that ticker and fiscal year is ever committed
C30_OneCommittedDocument ==
    /\ \A s \in DOMAIN rreq : Cardinality(CommittedFor(rreq[s])) <= 1
    /\ \A s \in DOMAIN rpc : rpc[s] # "MultipleResultsFound"

\* two calls for the same filing both passed the duplicate check; one
\* committed, the INSERT of the other failed on the unique index
C30_Witness ==
    /\ rpc # <<>>
    /\ rpc[1] = "returned"
    /\ rpc[2] = "IntegrityError"
    /\ rreq[1].ticker = <<"A", "A", "P", "L">>
    /\ rreq[2].ticker = <<"a", "a", "p", "l">>
    /\ Cardinality(documents) = 1

====
